---- MODULE Spec2Model ----
(***************************************************************************)
(* Model of the Timeular -> Freshbooks synchroniser: the customer and      *)
(* service indexes, the exact/fuzzy resolver, the fuzzy-match report       *)
(* deduplication and the batch submission of time entries.                 *)
(*                                                                         *)
(* Python strings are sequences of one-character strings.  A float score   *)
(* s is the integer s * One (One stands for 1.0), which is exact for the   *)
(* token counts the sample data reaches (1..6).                            *)
(***************************************************************************)
EXTENDS Integers, Sequences, FiniteSets, TLC

(***************************************************************************)
(* Bounds of the model.                                                    *)
(***************************************************************************)
\* pages of customers the provider holds (one request per page)
MaxPages == 2
\* time records in one batch
MaxBatch == 3
\* entries of a fuzzy-match report handed to the deduplication
MaxMatches == 3

(***************************************************************************)
(* Python str operations.                                                  *)
(***************************************************************************)
UpperCase == <<"A","B","C","D","E","F","G","H","I","J","K","L","M",
               "N","O","P","Q","R","S","T","U","V","W","X","Y","Z">>
LowerCase == <<"a","b","c","d","e","f","g","h","i","j","k","l","m",
               "n","o","p","q","r","s","t","u","v","w","x","y","z">>

\* the lower-case letter of each upper-case letter
LowerOf ==
    [c \in {UpperCase[i] : i \in 1..Len(UpperCase)} |->
        LowerCase[CHOOSE i \in 1..Len(UpperCase) : UpperCase[i] = c]]

LowerChar(c) == IF c \in DOMAIN LowerOf THEN LowerOf[c] ELSE c

\* str.lower()
Lower(s) == [i \in 1..Len(s) |-> LowerChar(s[i])]

\* str.replace(a, b) for one-character a and b
Replace(s, a, b) == [i \in 1..Len(s) |-> IF s[i] = a THEN b ELSE s[i]]

RECURSIVE LStrip(_)
LStrip(s) == IF s # <<>> /\ Head(s) = " " THEN LStrip(Tail(s)) ELSE s

RECURSIVE RStrip(_)
RStrip(s) ==
    IF s # <<>> /\ s[Len(s)] = " " THEN RStrip(SubSeq(s, 1, Len(s) - 1)) ELSE s

\* str.strip()
Strip(s) == RStrip(LStrip(s))

RECURSIVE SplitAcc(_, _, _)
SplitAcc(s, cur, acc) ==
    IF s = <<>>
    THEN (IF cur = <<>> THEN acc ELSE Append(acc, cur))
    ELSE IF Head(s) = " "
         THEN SplitAcc(Tail(s), <<>>, IF cur = <<>> THEN acc ELSE Append(acc, cur))
         ELSE SplitAcc(Tail(s), Append(cur, Head(s)), acc)

\* str.split(): the words between runs of white space
Split(s) == SplitAcc(s, <<>>, <<>>)

\* set(s.replace('-', ' ').replace('/', ' ').split())
Words(s) ==
    LET w == Split(Replace(Replace(s, "-", " "), "/", " "))
    IN  {w[i] : i \in 1..Len(w)}

\* sub in s
Contains(sub, s) ==
    /\ Len(sub) <= Len(s)
    /\ \E i \in 0..(Len(s) - Len(sub)) : SubSeq(s, i + 1, i + Len(sub)) = sub

Min(a, b) == IF a <= b THEN a ELSE b

(***************************************************************************)
(* Python values of a JSON record field: a str or None; a dict is a        *)
(* function whose domain is the set of keys present.                       *)
(***************************************************************************)
PyNone == [t |-> "None", s |-> <<>>]
PyStr(s) == [t |-> "str", s |-> s]
IsNone(v) == v.t = "None"

\* d.get(k, default)
Get(d, k, default) == IF k \in DOMAIN d THEN d[k] ELSE default

\* truth value of a str-or-None
Truthy(v) == v.t = "str" /\ v.s # <<>>

\* f"{v}"
Fmt(v) == IF IsNone(v) THEN <<"N","o","n","e">> ELSE v.s

\* an insertion-ordered dict is a sequence of <<key, value>>; d[k] = v
DictSet(d, k, v) ==
    IF \E i \in 1..Len(d) : d[i][1] = k
    THEN [i \in 1..Len(d) |-> IF d[i][1] = k THEN <<k, v>> ELSE d[i]]
    ELSE Append(d, <<k, v>>)

DictHas(d, k) == \E i \in 1..Len(d) : d[i][1] = k
DictGet(d, k) == d[CHOOSE i \in 1..Len(d) : d[i][1] = k][2]
DictKeys(d) == {d[i][1] : i \in 1..Len(d)}

\* the sequences over S of length at most n
RECURSIVE SeqsUpTo(_, _)
SeqsUpTo(S, n) ==
    IF n = 0 THEN {<<>>}
    ELSE LET shorter == SeqsUpTo(S, n - 1)
         IN  shorter \cup {Append(s, x) : s \in {q \in shorter : Len(q) = n - 1}, x \in S}

RECURSIVE Flatten(_)
Flatten(ss) == IF ss = <<>> THEN <<>> ELSE Head(ss) \o Flatten(Tail(ss))

(***************************************************************************)
(* Sample data: strings, customer records, service records, queries.       *)
(***************************************************************************)
sJohn == <<"J","o","h","n">>
sDoe == <<"D","o","e">>
sJane == <<"J","a","n","e">>
sAcmeCorp == <<"A","c","m","e"," ","C","o","r","p">>
sJohnDoeLtd == <<"J","o","h","n"," ","D","o","e"," ","L","t","d">>
sThe == <<"T","h","e">>
sWebDesign == <<"W","e","b"," ","D","e","s","i","g","n">>
sWebDevelopment == <<"W","e","b"," ","D","e","v","e","l","o","p","m","e","n","t">>
sDevelopment == <<"D","e","v","e","l","o","p","m","e","n","t">>
sTime == <<"T","i","m","e">>

\* customer records as the provider returns them (JSON objects)
cAcme == [id |-> 1, fname |-> PyStr(sJohn), lname |-> PyStr(sDoe),
          organization |-> PyStr(sAcmeCorp)]
cTwin == [id |-> 2, fname |-> PyStr(sJohn), lname |-> PyStr(sDoe),
          organization |-> PyStr(sJohnDoeLtd)]
cNull == [id |-> 3, fname |-> PyStr(sJane), organization |-> PyNone]
cThe == [id |-> 4, organization |-> PyStr(sThe)]
ClientPool == {cAcme, cTwin, cNull, cThe}

\* sample customers for the index alone: an organization with a trailing
\* space, a record with no name at all
sAcmeCorpPad == <<"A","c","m","e"," ","C","o","r","p"," ">>
cPad == [id |-> 5, fname |-> PyStr(sJohn), lname |-> PyStr(sDoe),
         organization |-> PyStr(sAcmeCorpPad)]
cBare == [id |-> 6]
IndexPool == {cAcme, cTwin, cNull, cThe, cPad, cBare}

\* service records as the provider returns them
sWeb == [id |-> 10, name |-> PyStr(sWebDesign), billable |-> TRUE]
sDev == [id |-> 11, name |-> PyStr(sDevelopment), billable |-> FALSE]
sNoName == [id |-> 12, name |-> PyNone, billable |-> FALSE]
sTimeSvc == [id |-> 13, name |-> PyStr(sTime), billable |-> TRUE]
sWebDev == [id |-> 14, name |-> PyStr(sWebDevelopment), billable |-> TRUE]
ServicePool == {sWeb, sDev, sNoName, sTimeSvc, sWebDev}
ServiceCatalogues == {<<sWeb, sDev, sNoName, sTimeSvc, sWebDev>>}

\* the value a lookup returns when it returns None
NoRecord == [id |-> 0]

\* customer queries (activity names)
qJohnDoe == <<"j","o","h","n"," ","d","o","e">>
qJohnDoePad == <<"J","o","h","n"," ","D","o","e"," ">>
qAcme == <<"A","c","m","e">>
qAcmeLower == <<"a","c","m","e">>
qJD == <<"J","D">>
qJohnLower == <<"j","o","h","n">>
qThe == <<"t","h","e">>
qEmpty == <<>>
qJohnDoeX == <<"j","o","h","n"," ","d","o","e"," ","x">>
Queries ==
    {qJohnDoe, qJohnDoePad, qAcme, qAcmeLower, qJD, qJohnLower, qThe, qEmpty,
     qJohnDoeX}

\* service tags
tDesign == <<"D","e","s","i","g","n">>
tWebDesignPad == <<" ","W","e","b"," ","D","e","s","i","g","n"," ">>
tA == <<"a">>
tDev == <<"d","e","v">>
tTime == <<"t","i","m","e">>
tWeb == <<"w","e","b">>
Tags == {tDesign, tWebDesignPad, tA, tDev, tTime, tWeb}

(***************************************************************************)
(* Scores.  One stands for the float 1.0.                                  *)
(***************************************************************************)
One == 6000
\* 0.4, the customer threshold; 0.35, the service threshold
ClientThreshold == 2400
ServiceThreshold == 2100
\* the weights 0.6, 0.3, the weighted bonus 0.8 * 0.1, and the flat boost 0.2
OverlapWeight == 3600
SubstringWeight == 1800
BonusTerm == 480
ContainmentBoost == 1200

\* (overlap / min(|a|, |b|)) * 0.6
OverlapTerm(a, b) ==
    (Cardinality(a \cap b) * OverlapWeight) \div Min(Cardinality(a), Cardinality(b))

\* min(1.0, substring_score / len(input_tokens)) * 0.3, substring_score = 0.5 * hits
SubstringTerm(hits, n) ==
    (Min(One, (hits * (One \div 2)) \div n) * SubstringWeight) \div One

(***************************************************************************)
(* The customer index: FreshbooksClient.get_clients.                       *)
(***************************************************************************)
\* the state of self.clients before any successful get_clients
NoIndex == [loaded |-> FALSE, by_id |-> <<>>, by_name |-> <<>>, all |-> <<>>]

\* f"{client.get('fname', '')} {client.get('lname', '')}".strip()
FullName(client) ==
    Strip(Fmt(Get(client, "fname", PyStr(<<>>))) \o <<" ">>
          \o Fmt(Get(client, "lname", PyStr(<<>>))))

\* the by_name keys one record writes, in the order the code writes them:
\* full name, organization, "full name - organization"
ClientKeys(client) ==
    LET full_name == FullName(client)
        organization == Get(client, "organization", PyStr(<<>>))
    IN  (IF full_name # <<>> THEN <<Lower(full_name)>> ELSE <<>>)
        \o (IF Truthy(organization) THEN <<Lower(organization.s)>> ELSE <<>>)
        \o (IF full_name # <<>> /\ Truthy(organization)
            THEN <<Lower(full_name \o <<" ","-"," ">> \o organization.s)>>
            ELSE <<>>)

\* ClientKeys, tabulated over the sample records
ClientKeysOf == [client \in ClientPool \cup IndexPool |-> ClientKeys(client)]

RECURSIVE SetAll(_, _, _)
SetAll(d, keys, v) ==
    IF keys = <<>> THEN d ELSE SetAll(DictSet(d, Head(keys), v), Tail(keys), v)

\* self.clients["by_name"][key] = client, for each key of the record
AddNames(by_name, client) == SetAll(by_name, ClientKeysOf[client], client)

\* by_id[client_id] = client, when the id is present and truthy
AddId(by_id, rec) ==
    IF "id" \in DOMAIN rec /\ rec.id # 0 THEN DictSet(by_id, rec.id, rec) ELSE by_id

RECURSIVE PopulateClients(_, _)
PopulateClients(index, records) ==
    IF records = <<>> THEN index
    ELSE PopulateClients(
            [index EXCEPT !.by_id = AddId(@, Head(records)),
                          !.by_name = AddNames(@, Head(records))],
            Tail(records))

\* the index built from the fetched list
BuildClientIndex(records) ==
    PopulateClients([loaded |-> TRUE, by_id |-> <<>>, by_name |-> <<>>,
                     all |-> records], records)

\* What one run of the pagination loop does.  pages is what the provider
\* holds; fault = [page, kind] is the request the environment fails
\* (page 0: none), kind being "error" (a status other than 200, or a body of
\* an unexpected shape: both set more_pages = False) or "exception" (the
\* request raises).
FaultKinds == {"error", "exception"}
NoFault == [page |-> 0, kind |-> "error"]
Faults(pages) == {NoFault} \cup [page : 1..Len(pages), kind : FaultKinds]

\* the number of pages fetched before the loop ends
PagesFetched(pages, fault) ==
    IF fault.page \in 1..Len(pages) THEN fault.page - 1 ELSE Len(pages)

\* get_clients raised inside its try block and returned None
GetClientsFails(pages, fault) ==
    fault.page \in 1..Len(pages) /\ fault.kind = "exception"

\* the most requests one call of get_clients is followed for
MaxRequests == MaxPages + 2

\* a loop that asks for the same page again (not what the code does)
PageKept(page) == page

\* line 212: page += 1
PageAfter(page) == page + 1

\* lines 189-219, the loop: the pages requested, in order.  The provider
\* holds Len(pages) pages and echoes the page asked for; a failed request
\* (non-200, unexpected shape, exception) ends the loop, and so does
\* current_page >= total_pages.  ended is FALSE when the loop is still
\* running after MaxRequests requests.
RECURSIVE PageLoop(_, _, _, _)
PageLoop(pages, fault, page, requested) ==
    IF Len(requested) >= MaxRequests
    THEN [requested |-> requested, ended |-> FALSE]
    ELSE IF fault.page = page \/ page >= Len(pages)
    THEN [requested |-> Append(requested, page), ended |-> TRUE]
    ELSE PageLoop(pages, fault, PageAfter(page), Append(requested, page))

\* self.clients after get_clients
ClientsAfterGet(old, pages, fault) ==
    IF GetClientsFails(pages, fault) THEN old
    ELSE BuildClientIndex(Flatten(SubSeq(pages, 1, PagesFetched(pages, fault))))

(***************************************************************************)
(* FreshbooksClient.partial_match_client: the customer fuzzy scan.         *)
(***************************************************************************)
client_stop_words ==
    {<<"a","n","d">>, <<"t","h","e">>, <<"l","l","c">>, <<"i","n","c">>, <<"l","t","d">>, <<"c","o","r","p">>, <<"c","o","r","p","o","r","a","t","i","o","n">>, <<"c","o","m","p","a","n","y">>, <<"c","o">>}

\* a tokenizer that keeps the stop words (not what the code does)
InputTokensKept(name) == Words(name)

\* the query's tokens: the name is split as given (not lower-cased)
InputTokensClient(name) == {tok \in Words(name) : tok \notin client_stop_words}

\* a by_name key's tokens
ClientTokens(key) == {tok \in Words(Lower(key)) : tok \notin client_stop_words}

\* the candidate is skipped by the "continue"
ClientSkipped(input_tokens, client_tokens) ==
    Cardinality(input_tokens) = 0 \/ Cardinality(client_tokens) = 0

\* client.get(f, '').lower() raises AttributeError on a null field
ClientRaises(client) ==
    \/ IsNone(Get(client, "fname", PyStr(<<>>)))
    \/ IsNone(Get(client, "lname", PyStr(<<>>)))
    \/ IsNone(Get(client, "organization", PyStr(<<>>)))

\* f"{fname.lower()} {lname.lower()}".strip()
LowerFullName(client) ==
    Strip(Lower(Get(client, "fname", PyStr(<<>>)).s) \o <<" ">>
          \o Lower(Get(client, "lname", PyStr(<<>>)).s))

\* the 0.5 steps of the substring score, counted
ClientSubstringHits(input_tokens, client) ==
    LET full_name == LowerFullName(client)
        organization == Lower(Get(client, "organization", PyStr(<<>>)).s)
    IN  Cardinality({tok \in input_tokens : Contains(tok, full_name)})
        + Cardinality({tok \in input_tokens : Contains(tok, organization)})

\* the initials score taken at full weight (not what the code does)
InitialTermUnweighted(input_tokens, client) ==
    LET fname == Get(client, "fname", PyNone)
        lname == Get(client, "lname", PyNone)
    IN  IF Truthy(fname) /\ Truthy(lname)
           /\ \E tok \in input_tokens :
                Len(tok) = 2 /\ Lower(tok) = Lower(<<fname.s[1], lname.s[1]>>)
        THEN (One * 8) \div 10 ELSE 0

\* initial_score * 0.1
InitialTerm(input_tokens, client) ==
    LET fname == Get(client, "fname", PyNone)
        lname == Get(client, "lname", PyNone)
    IN  IF Truthy(fname) /\ Truthy(lname)
           /\ \E tok \in input_tokens :
                Len(tok) = 2 /\ Lower(tok) = Lower(<<fname.s[1], lname.s[1]>>)
        THEN BonusTerm ELSE 0

\* the +0.2 of partial_match_client
ClientBoost(name, key) ==
    IF Contains(name, Lower(key)) \/ Contains(Lower(key), name)
    THEN ContainmentBoost ELSE 0

\* combined_score as partial_match_client compares it with best_score
ClientCombinedScore(name, key, client) ==
    LET input_tokens == InputTokensClient(name)
    IN  OverlapTerm(input_tokens, ClientTokens(key))
        + SubstringTerm(ClientSubstringHits(input_tokens, client),
                        Cardinality(input_tokens))
        + InitialTerm(input_tokens, client)
        + ClientBoost(name, key)

\* every key the sample records can put into by_name
AllClientKeys ==
    UNION {{ClientKeys(c)[i] : i \in 1..Len(ClientKeys(c))} : c \in ClientPool}

\* one iteration of the loop of partial_match_client for one by_name entry:
\* skipped by the continue, raising, or scored
ClientCandidate(name, key, client) ==
    LET skipped == ClientSkipped(InputTokensClient(name), ClientTokens(key))
        raises == ~skipped /\ ClientRaises(client)
    IN  [skipped |-> skipped, raises |-> raises,
         score |-> IF skipped \/ raises THEN 0
                   ELSE ClientCombinedScore(name, key, client)]

\* ClientCandidate, tabulated over the sample queries, keys and records
ClientCandidateOf ==
    [name \in Queries, key \in AllClientKeys, client \in ClientPool |->
        ClientCandidate(name, key, client)]

\* the state of a scan: the running best, the candidates scored, a raise
ScanStart ==
    [raised |-> FALSE, scored |-> 0, best_score |-> 0, found |-> FALSE,
     best_match |-> NoRecord]

\* a scan that lets a later equal score replace the best (not what the code does)
KeepLast(acc, score, item) ==
    IF score >= acc.best_score
    THEN [acc EXCEPT !.scored = @ + 1, !.best_score = score, !.found = TRUE,
                     !.best_match = item]
    ELSE [acc EXCEPT !.scored = @ + 1]

\* "if combined_score > best_score": a later equal score does not replace
KeepBest(acc, score, item) ==
    IF score > acc.best_score
    THEN [acc EXCEPT !.scored = @ + 1, !.best_score = score, !.found = TRUE,
                     !.best_match = item]
    ELSE [acc EXCEPT !.scored = @ + 1]

RECURSIVE ClientScan(_, _, _)
ClientScan(name, items, acc) ==
    IF items = <<>> \/ acc.raised THEN acc
    ELSE LET client == Head(items)[2]
             cand == ClientCandidateOf[name, Head(items)[1], client]
         IN  IF cand.skipped THEN ClientScan(name, Tail(items), acc)
             ELSE IF cand.raises THEN [acc EXCEPT !.raised = TRUE]
             ELSE ClientScan(name, Tail(items), KeepBest(acc, cand.score, client))

\* the result of a scan against its threshold
Thresholded(acc, threshold) ==
    IF acc.raised THEN [acc EXCEPT !.found = FALSE, !.best_match = NoRecord]
    ELSE IF acc.best_score >= threshold THEN acc
    ELSE [acc EXCEPT !.found = FALSE, !.best_match = NoRecord]

partial_match_client(name, index) ==
    Thresholded(ClientScan(name, index.by_name, ScanStart), ClientThreshold)

(***************************************************************************)
(* FuzzyMatchingMixin._fuzzy_match, and its use for services.              *)
(***************************************************************************)
base_stop_words ==
    {<<"a","n","d">>, <<"t","h","e">>, <<"o","f">>, <<"i","n">>, <<"f","o","r">>, <<"t","o">>, <<"w","i","t","h">>, <<"b","y">>, <<"a","t">>, <<"f","r","o","m">>}
service_stop_words ==
    {<<"s","e","r","v","i","c","e">>, <<"s","e","r","v","i","c","e","s">>, <<"c","o","n","s","u","l","t","i","n","g">>, <<"t","i","m","e">>, <<"h","o","u","r","s">>, <<"w","o","r","k">>}

\* tokens of a text under a stop-word set; tokens of one character are dropped
FuzzyTokens(text, stop_words) ==
    {tok \in Words(Lower(text)) : tok \notin stop_words /\ Len(tok) > 1}

\* f"{service.get('name', '')} {key}".strip()
get_service_comparison_text(service, key) ==
    Strip(Fmt(Get(service, "name", PyStr(<<>>))) \o <<" ">> \o key)

\* combined_score of _fuzzy_match for one candidate text
FuzzyCombinedScore(input_str, comparison_text, stop_words) ==
    LET input_tokens == FuzzyTokens(input_str, stop_words)
        target_tokens == FuzzyTokens(comparison_text, stop_words)
        hits == Cardinality({tok \in input_tokens :
                                Contains(tok, Lower(comparison_text))})
        containment ==
            IF Contains(Lower(input_str), Lower(comparison_text))
               \/ Contains(Lower(comparison_text), Lower(input_str))
            THEN BonusTerm ELSE 0
    IN  OverlapTerm(input_tokens, target_tokens)
        + SubstringTerm(hits, Cardinality(input_tokens))
        + containment

\* the candidate is skipped by the "continue" of _fuzzy_match
FuzzySkipped(input_tokens, target_tokens) == input_tokens = {} \/ target_tokens = {}

\* one iteration of the loop of _fuzzy_match for a service entry
ServiceCandidate(input_str, key, service) ==
    LET stop_words == base_stop_words \cup service_stop_words
        text == get_service_comparison_text(service, key)
        skipped == FuzzySkipped(FuzzyTokens(input_str, stop_words),
                                FuzzyTokens(text, stop_words))
    IN  [skipped |-> skipped, raises |-> FALSE,
         score |-> IF skipped THEN 0
                   ELSE FuzzyCombinedScore(input_str, text, stop_words)]

\* the key find_service_by_tag looks up: tag.lower().strip()
ServiceLookupKey(tag) == Strip(Lower(tag))

\* ServiceCandidate, tabulated over the sample tags and service records
ServiceCandidateOf ==
    [input_str \in {ServiceLookupKey(tag) : tag \in Tags},
     key \in {Lower(svc.name.s) : svc \in ServicePool},
     service \in ServicePool |->
        ServiceCandidate(input_str, key, service)]

\* the scan of _fuzzy_match over the service index
RECURSIVE ServiceScan(_, _, _)
ServiceScan(input_str, items, acc) ==
    IF items = <<>> THEN acc
    ELSE LET service == Head(items)[2]
             cand == ServiceCandidateOf[input_str, Head(items)[1], service]
         IN  IF cand.skipped THEN ServiceScan(input_str, Tail(items), acc)
             ELSE ServiceScan(input_str, Tail(items),
                              KeepBest(acc, cand.score, service))

_partial_match_service(tag, index) ==
    Thresholded(ServiceScan(tag, index.by_name, ScanStart), ServiceThreshold)

(***************************************************************************)
(* The replicas used for the mapping report: _calculate_fuzzy_match_score  *)
(* and _calculate_service_match_score.                                     *)
(***************************************************************************)
\* client.get('organization', '').lower() raises on a null organization
CalcClientRaises(client) == IsNone(Get(client, "organization", PyStr(<<>>)))

_calculate_fuzzy_match_score(name, client) ==
    LET input_tokens == {tok \in Words(Lower(name)) : tok \notin client_stop_words}
        full_name == Lower(FullName(client))
        organization == Lower(Get(client, "organization", PyStr(<<>>)).s)
        client_tokens ==
            {tok \in Words(full_name) \cup Words(organization) :
                tok \notin client_stop_words}
        hits == Cardinality({tok \in input_tokens : Contains(tok, full_name)})
                + Cardinality({tok \in input_tokens : Contains(tok, organization)})
        boost ==
            IF \/ Contains(Lower(name), full_name)
               \/ Contains(Lower(name), organization)
               \/ Contains(full_name, Lower(name))
               \/ Contains(organization, Lower(name))
            THEN ContainmentBoost ELSE 0
    IN  IF Cardinality(input_tokens) = 0 \/ Cardinality(client_tokens) = 0
        THEN 0
        ELSE Min(One, OverlapTerm(input_tokens, client_tokens)
                      + SubstringTerm(hits, Cardinality(input_tokens))
                      + InitialTerm(input_tokens, client)
                      + boost)

_calculate_service_match_score(tag, service) ==
    LET stop_words == base_stop_words \cup service_stop_words
        comparison_text ==
            get_service_comparison_text(service,
                                        Fmt(Get(service, "name", PyStr(<<>>))))
    IN  IF FuzzyTokens(tag, stop_words) = {}
           \/ FuzzyTokens(comparison_text, stop_words) = {}
        THEN 0
        ELSE Min(One, FuzzyCombinedScore(tag, comparison_text, stop_words))

\* the replicas, tabulated over the sample data
CalcClientScoreOf ==
    [name \in Queries, client \in ClientPool |->
        IF CalcClientRaises(client) THEN 0
        ELSE _calculate_fuzzy_match_score(name, client)]
CalcServiceScoreOf ==
    [tag \in Tags, service \in ServicePool |->
        _calculate_service_match_score(tag, service)]

(***************************************************************************)
(* The service index: ServicesMixin.get_services.                          *)
(***************************************************************************)
\* by_name[service_name.lower()] = service, when the name is truthy
AddServiceName(by_name, service) ==
    LET service_name == Get(service, "name", PyNone)
    IN  IF Truthy(service_name)
        THEN DictSet(by_name, Lower(service_name.s), service) ELSE by_name

RECURSIVE PopulateServices(_, _)
PopulateServices(index, records) ==
    IF records = <<>> THEN index
    ELSE PopulateServices(
            [index EXCEPT !.by_id = AddId(@, Head(records)),
                          !.by_name = AddServiceName(@, Head(records))],
            Tail(records))

\* the outcomes of the one request of get_services
ServiceOutcomes == {"ok", "status", "shape", "exception"}

\* self.services after get_services: set only on a 200 with a 'services' key
ServicesAfterGet(old, catalogue, outcome) ==
    IF outcome = "ok"
    THEN PopulateServices([loaded |-> TRUE, by_id |-> <<>>, by_name |-> <<>>,
                           all |-> catalogue], catalogue)
    ELSE old

(***************************************************************************)
(* The resolvers: find_client_by_name and find_service_by_tag.             *)
(***************************************************************************)
\* the result of a call that raised
Raised ==
    [found |-> FALSE, value |-> NoRecord, branch |-> "raise", raised |-> TRUE,
     scored |-> 0, best_score |-> 0]

\* the result of a fuzzy scan as the resolver returns it
FromScan(acc) ==
    [found |-> acc.found, value |-> acc.best_match,
     branch |-> IF acc.raised THEN "raise" ELSE IF acc.found THEN "fuzzy" ELSE "none",
     raised |-> acc.raised, scored |-> acc.scored, best_score |-> acc.best_score]

\* the result of the exact-match branch
Exact(record) ==
    [found |-> TRUE, value |-> record, branch |-> "exact", raised |-> FALSE,
     scored |-> 0, best_score |-> 0]

\* a resolver that fetches on every call (not what the code does)
ClientsRefetched(old, pages, fault) == ClientsAfterGet(old, pages, fault)

\* self.clients when find_client_by_name reads it: fetched only when absent
ClientsAfterFind(old, pages, fault) ==
    IF old.loaded THEN old ELSE ClientsAfterGet(old, pages, fault)

\* the key find_client_by_name looks up: name.lower()
ClientLookupKey(name) == Lower(name)

find_client_by_name(name, index) ==
    IF ~index.loaded THEN Raised
    ELSE IF DictHas(index.by_name, ClientLookupKey(name))
    THEN Exact(DictGet(index.by_name, ClientLookupKey(name)))
    ELSE FromScan(partial_match_client(name, index))

\* self.services when find_service_by_tag reads it
ServicesAfterFind(old, catalogue, outcome) ==
    IF old.loaded THEN old ELSE ServicesAfterGet(old, catalogue, outcome)

find_service_by_tag(tag, index) ==
    IF ~index.loaded THEN Raised
    ELSE IF DictHas(index.by_name, ServiceLookupKey(tag))
    THEN Exact(DictGet(index.by_name, ServiceLookupKey(tag)))
    ELSE FromScan(_partial_match_service(ServiceLookupKey(tag), index))

(***************************************************************************)
(* FuzzyMatchingMixin._deduplicate_fuzzy_matches.                          *)
(***************************************************************************)
\* match.get(key_field, '')
MatchKey(match, key_field) == Get(match, key_field, <<>>)

\* a loop body in which the last entry of a key wins (not what the code does)
GroupStepLast(grouped, match, key_field) ==
    DictSet(grouped, MatchKey(match, key_field), match)

\* the loop body: grouped[key] = match when the key is new or the stored
\* entry scores lower
GroupStep(grouped, match, key_field) ==
    LET key == MatchKey(match, key_field)
    IN  IF ~DictHas(grouped, key) \/ DictGet(grouped, key).score < match.score
        THEN DictSet(grouped, key, match)
        ELSE grouped

RECURSIVE GroupAll(_, _, _)
GroupAll(grouped, matches, key_field) ==
    IF matches = <<>> THEN grouped
    ELSE GroupAll(GroupStep(grouped, Head(matches), key_field), Tail(matches),
                  key_field)

\* list(grouped.values())
_deduplicate_fuzzy_matches(matches, key_field) ==
    LET grouped == GroupAll(<<>>, matches, key_field)
    IN  [i \in 1..Len(grouped) |-> grouped[i][2]]

\* sample report entries; one carries no 'input'
MatchPool ==
    [input : {qAcme, qJD}, matched_to : {sJohn, sJane},
     score : {ServiceThreshold, ClientThreshold, One}]
        \cup {[matched_to |-> sJane, score |-> One]}
KeyFields == {"input", "matched_to"}

(***************************************************************************)
(* FreshbooksClient.create_time_entry: the transformation of one record.   *)
(***************************************************************************)
Digits == {"0","1","2","3","4","5","6","7","8","9"}
DigitValue ==
    [d \in Digits |-> CHOOSE n \in 0..9 :
        <<"0","1","2","3","4","5","6","7","8","9">>[n + 1] = d]
IsDigits(s) == s # <<>> /\ \A i \in 1..Len(s) : s[i] \in Digits

RECURSIVE Number(_)
Number(s) == IF s = <<>> THEN 0 ELSE 10 * Number(SubSeq(s, 1, Len(s) - 1))
                                      + DigitValue[s[Len(s)]]

\* str(n) for a natural number
RECURSIVE Str(_)
Str(n) ==
    LET d == <<"0","1","2","3","4","5","6","7","8","9">>[(n % 10) + 1]
    IN  IF n < 10 THEN <<d>> ELSE Str(n \div 10) \o <<d>>

\* s.replace('Z', '+00:00')
RECURSIVE ReplaceZ(_)
ReplaceZ(s) ==
    IF s = <<>> THEN <<>>
    ELSE (IF Head(s) = "Z" THEN <<"+","0","0",":","0","0">> ELSE <<Head(s)>>)
         \o ReplaceZ(Tail(s))

\* YYYY-MM-DD
IsIsoDate(s) ==
    /\ Len(s) = 10
    /\ IsDigits(SubSeq(s, 1, 4)) /\ s[5] = "-"
    /\ IsDigits(SubSeq(s, 6, 7)) /\ s[8] = "-"
    /\ IsDigits(SubSeq(s, 9, 10))

\* HH:MM:SS
IsIsoTime(s) ==
    /\ Len(s) = 8
    /\ IsDigits(SubSeq(s, 1, 2)) /\ s[3] = ":"
    /\ IsDigits(SubSeq(s, 4, 5)) /\ s[6] = ":"
    /\ IsDigits(SubSeq(s, 7, 8))

\* +HH:MM or -HH:MM
IsIsoOffset(s) ==
    /\ Len(s) = 6
    /\ s[1] \in {"+", "-"}
    /\ IsDigits(SubSeq(s, 2, 3)) /\ s[4] = ":"
    /\ IsDigits(SubSeq(s, 5, 6))

\* datetime.fromisoformat for the forms date, date+time, date+time+offset
\* (any one character separates date and time); every other text raises
\* ValueError.  The fields are kept as text; offset is minutes east of UTC.
NoDateTime ==
    [ok |-> FALSE, date |-> <<>>, clock |-> <<>>, aware |-> FALSE, offset |-> 0]

fromisoformat(s) ==
    LET date == SubSeq(s, 1, 10)
        clock == SubSeq(s, 12, 19)
        off == SubSeq(s, 20, 25)
        minutes == Number(SubSeq(off, 2, 3)) * 60 + Number(SubSeq(off, 5, 6))
    IN  IF Len(s) = 10
        THEN IF IsIsoDate(s)
             THEN [ok |-> TRUE, date |-> s,
                   clock |-> <<"0","0",":","0","0",":","0","0">>,
                   aware |-> FALSE, offset |-> 0]
             ELSE NoDateTime
        ELSE IF Len(s) = 19
        THEN IF IsIsoDate(date) /\ IsIsoTime(clock)
             THEN [ok |-> TRUE, date |-> date, clock |-> clock,
                   aware |-> FALSE, offset |-> 0]
             ELSE NoDateTime
        ELSE IF Len(s) = 25
        THEN IF IsIsoDate(date) /\ IsIsoTime(clock) /\ IsIsoOffset(off)
             THEN [ok |-> TRUE, date |-> date, clock |-> clock, aware |-> TRUE,
                   offset |-> IF off[1] = "-" THEN 0 - minutes ELSE minutes]
             ELSE NoDateTime
        ELSE NoDateTime

\* start_date.strftime("%Y-%m-%dT%H:%M:%S.000Z"): the datetime's own fields,
\* whatever its offset
strftime(dt) == dt.date \o <<"T">> \o dt.clock \o <<".","0","0","0","Z">>

\* a number of the record, in hundredths (2.5 is 250), and a boolean
PyNum(v) == [t |-> "num", s |-> <<>>, v |-> v]
PyBool(b) == [t |-> "bool", s |-> <<>>, b |-> b]

\* float(x): a number as it is, the text of a decimal number parsed, anything
\* else raises; the value is in hundredths
float(x) ==
    LET s == Strip(x.s)
        dot == IF \E i \in 1..Len(s) : s[i] = "."
               THEN CHOOSE i \in 1..Len(s) : s[i] = "." ELSE 0
        whole == IF dot = 0 THEN s ELSE SubSeq(s, 1, dot - 1)
        frac == IF dot = 0 THEN <<>> ELSE SubSeq(s, dot + 1, Len(s))
        cents == IF Len(frac) = 1 THEN 10 * Number(frac) ELSE Number(frac)
    IN  IF x.t = "num" THEN [ok |-> TRUE, v |-> x.v]
        ELSE IF x.t = "str" /\ IsDigits(whole \o frac) /\ Len(frac) <= 2
        THEN [ok |-> TRUE, v |-> 100 * Number(whole) + cents]
        ELSE [ok |-> FALSE, v |-> 0]

\* int(hours * 3600), hours in hundredths
SecondsOf(hundredths) == (hundredths * 3600) \div 100

\* bool(x)
bool(x) ==
    IF x.t = "bool" THEN x.b
    ELSE IF x.t = "num" THEN x.v # 0
    ELSE IF x.t = "str" THEN x.s # <<>>
    ELSE FALSE

\* lines 52-74: the start date, the duration and the first payload fields.
\* ok is FALSE when the block raises: no 'startdate' or 'duration' key
\* (KeyError), a start date that is no ISO text (ValueError; a value that is
\* neither text nor a datetime has no strftime), a duration float() rejects.
NoTransform ==
    [ok |-> FALSE, duration |-> 0, started_at |-> <<>>, billable |-> FALSE]

Transform(time_entry) ==
    LET startdate == time_entry["startdate"]
        dt == IF startdate.t = "datetime" THEN startdate.dt
              ELSE fromisoformat(ReplaceZ(startdate.s))
        hours == float(time_entry["duration"])
    IN  IF "startdate" \notin DOMAIN time_entry THEN NoTransform
        ELSE IF startdate.t \notin {"str", "datetime"} THEN NoTransform
        ELSE IF ~dt.ok THEN NoTransform
        ELSE IF "duration" \notin DOMAIN time_entry THEN NoTransform
        ELSE IF ~hours.ok THEN NoTransform
        ELSE [ok |-> TRUE, duration |-> SecondsOf(hours.v),
              started_at |-> strftime(dt),
              billable |-> bool(Get(time_entry, "billable", PyBool(FALSE)))]

\* lines 77-81: the name to look up, <<>> when there is none
ClientNameOf(time_entry) ==
    IF "activityname" \in DOMAIN time_entry /\ Truthy(time_entry["activityname"])
    THEN time_entry["activityname"].s
    ELSE IF "activity" \in DOMAIN time_entry /\ Truthy(time_entry["activity"])
    THEN time_entry["activity"].s
    ELSE <<>>

\* sample records
sStart == <<"2","0","2","4","-","0","1","-","0","2","T","0","9",":","0","0",":","0","0","Z">>
sGarbage == <<"a","b","c">>
eGood == [startdate |-> PyStr(sStart), duration |-> PyNum(250),
          billable |-> PyBool(TRUE), activity |-> PyStr(qAcmeLower)]
eGarbage == [startdate |-> PyStr(sStart), duration |-> PyStr(sGarbage),
             billable |-> PyBool(TRUE), activity |-> PyStr(qJohnDoe)]
eNoDate == [duration |-> PyNum(100), billable |-> PyBool(FALSE),
            activity |-> PyStr(qJohnDoe)]
eNoActivity == [startdate |-> PyStr(sStart), duration |-> PyNum(150),
                billable |-> PyBool(FALSE)]
EntryPool == {eGood, eGarbage, eNoDate, eNoActivity}

\* sample records for the fields of one record: durations as numbers and as
\* text, billable values of every type, an explicit client_id
sClock == <<"0","1",":","3","0",":","0","0">>
sDecimal == <<"2",".","5">>
sYes == <<"Y","e","s">>
sNo == <<"n","o">>
sFalse == <<"f","a","l","s","e">>
sBillable == <<"b","i","l","l","a","b","l","e">>
eClock == [startdate |-> PyStr(sStart), duration |-> PyStr(sClock),
           billable |-> PyBool(TRUE)]
eDecimal == [startdate |-> PyStr(sStart), duration |-> PyStr(sDecimal),
             billable |-> PyStr(sYes)]
eNo == [startdate |-> PyStr(sStart), duration |-> PyNum(100),
        billable |-> PyStr(sNo)]
eFalse == [startdate |-> PyStr(sStart), duration |-> PyNum(100),
           billable |-> PyStr(sFalse)]
eBillable == [startdate |-> PyStr(sStart), duration |-> PyNum(100),
              billable |-> PyStr(sBillable)]
eOne == [startdate |-> PyStr(sStart), duration |-> PyNum(100),
         billable |-> PyNum(100)]
eZero == [startdate |-> PyStr(sStart), duration |-> PyNum(100),
          billable |-> PyNum(0)]
eUnset == [startdate |-> PyStr(sStart), duration |-> PyNum(100)]
eExplicit == [startdate |-> PyStr(sStart), duration |-> PyNum(100),
              billable |-> PyBool(TRUE), activity |-> PyStr(qAcmeLower),
              client_id |-> 5]
eExplicitOnly == [startdate |-> PyStr(sStart), duration |-> PyNum(100),
                  billable |-> PyBool(TRUE), client_id |-> 5]
eExplicitInitials == [startdate |-> PyStr(sStart), duration |-> PyNum(100),
                      billable |-> PyBool(TRUE), activity |-> PyStr(qJD),
                      client_id |-> 5]
sStartEast == <<"2","0","2","4","-","0","1","-","0","2","T","0","9",":","0","0",":","0","0","+","0","2",":","0","0">>
eEast == [startdate |-> PyStr(sStartEast), duration |-> PyNum(100),
          billable |-> PyBool(TRUE)]
\* d[k] = v
With(d, k, v) == [x \in DOMAIN d \cup {k} |-> IF x = k THEN v ELSE d[x]]

\* ---------------------------------------------------------------------
\* The Timeular side: format_entries, load_time_entries_from_excel, and the
\* records main builds from what they return.

\* the most rows one source holds
MaxRows == 1

\* a datetime object as a value of a record
PyDateTime(dt) == [t |-> "datetime", s |-> <<>>, dt |-> dt]

\* a number below 100 in two digits
TwoDigits(n) == IF n < 10 THEN <<"0">> \o Str(n) ELSE Str(n)

\* a duration written HH:MM:SS, and its seconds
IsClock(s) ==
    /\ Len(s) = 8
    /\ s[3] = ":" /\ s[6] = ":"
    /\ IsDigits(<<s[1], s[2], s[4], s[5], s[7], s[8]>>)
ClockSeconds(s) ==
    Number(<<s[1], s[2]>>) * 3600 + Number(<<s[4], s[5]>>) * 60
    + Number(<<s[7], s[8]>>)

\* HH:MM:SS of a number of seconds after midnight
ClockText(seconds) ==
    TwoDigits(seconds \div 3600) \o <<":">> \o TwoDigits((seconds % 3600) \div 60)
    \o <<":">> \o TwoDigits(seconds % 60)

\* s.split('.')[0]
BeforeDot(s) ==
    IF \E i \in 1..Len(s) : s[i] = "."
    THEN SubSeq(s, 1, (CHOOSE i \in 1..Len(s) :
                          s[i] = "." /\ \A j \in 1..(i - 1) : s[j] # ".") - 1)
    ELSE s

\* timeular/client.py lines 114-126: a timestamp of the API parsed; a missing
\* or empty one gives None, one fromisoformat rejects raises
NoStamp == [ok |-> TRUE, none |-> TRUE, dt |-> NoDateTime]
ParseStamp(v) ==
    LET dt == fromisoformat(ReplaceZ(BeforeDot(v.s) \o <<"Z">>))
    IN  IF v.t # "str" \/ v.s = <<>> THEN NoStamp
        ELSE [ok |-> dt.ok, none |-> FALSE, dt |-> dt]

\* (end - start).total_seconds(), for two timestamps of one month
DayOf(dt) == Number(SubSeq(dt.date, 9, 10))
total_seconds(end, start) ==
    (DayOf(end) - DayOf(start)) * 86400
    + ClockSeconds(end.clock) - ClockSeconds(start.clock)
    - (end.offset - start.offset) * 60

\* round(n / d) as Python rounds: to the nearest integer, a tie to the even one
RoundHalfEven(n, d) ==
    LET q == n \div d
        r == n % d
    IN  IF 2 * r < d THEN q
        ELSE IF 2 * r > d THEN q + 1
        ELSE IF q % 2 = 0 THEN q ELSE q + 1

\* timeular/client.py lines 140-148, on a duration in seconds (duration_hours
\* is seconds / 3600); the value is in hundredths of an hour
rounding(seconds) ==
    IF seconds < 900 THEN 25
    ELSE IF seconds < 1800 THEN 50
    ELSE 50 * RoundHalfEven(seconds, 1800)

\* lines 128-132: the seconds between the two timestamps, 0 when one is missing
DurationSeconds(start, end) ==
    IF ~start.none /\ ~end.none THEN total_seconds(end.dt, start.dt) ELSE 0

StampValue(stamp) == IF stamp.none THEN PyNone ELSE PyDateTime(stamp.dt)

\* lines 102-162: one entry of the API formatted
FormatEntry(entry) ==
    LET activity == Get(entry, "activity", <<>>)
        duration == Get(entry, "duration", <<>>)
        note_obj == Get(entry, "note", <<>>)
        start == ParseStamp(Get(duration, "startedAt", PyNone))
        end == ParseStamp(Get(duration, "stoppedAt", PyNone))
    IN  IF ~(start.ok /\ end.ok) THEN [ok |-> FALSE, entry |-> <<>>]
        ELSE
        [ok |-> TRUE,
         entry |->
            [id |-> Get(entry, "id", 0),
             activity_id |-> Get(activity, "id", 0),
             activity_name |-> Get(activity, "name", PyStr(<<"U","n","k","n","o","w","n">>)),
             start_time |-> StampValue(start),
             end_time |-> StampValue(end),
             duration_hours |-> PyNum(rounding(DurationSeconds(start, end))),
             note |-> Get(note_obj, "text", PyStr(<<>>)),
             tags |-> Get(note_obj, "tags", <<>>),
             is_ongoing |-> end.none]]

\* format_entries, lines 98-164: every entry formatted, or the call raises
format_entries(raw) ==
    IF \A i \in 1..Len(raw) : FormatEntry(raw[i]).ok
    THEN [ok |-> TRUE, entries |-> [i \in 1..Len(raw) |-> FormatEntry(raw[i]).entry]]
    ELSE [ok |-> FALSE, entries |-> <<>>]

\* csv_handler.py lines 41-48: the Billable cell parsed
BillableTexts ==
    {<<"y","e","s">>, <<"t","r","u","e">>, <<"y">>, <<"1">>,
     <<"b","i","l","l","a","b","l","e">>}
ParseBillable(v) ==
    IF v.t = "bool" THEN v.b
    ELSE IF v.t = "str" THEN Lower(v.s) \in BillableTexts
    ELSE IF v.t = "num" THEN v.v # 0
    ELSE FALSE

\* datetime.isoformat()
OffsetText(minutes) ==
    LET m == IF minutes < 0 THEN 0 - minutes ELSE minutes
    IN  <<IF minutes < 0 THEN "-" ELSE "+">> \o TwoDigits(m \div 60) \o <<":">>
        \o TwoDigits(m % 60)
isoformat(dt) ==
    dt.date \o <<"T">> \o dt.clock
    \o (IF dt.aware THEN OffsetText(dt.offset) ELSE <<>>)

\* start_date + timedelta(seconds), for a sum that stays within the day
AddSeconds(dt, seconds) ==
    [dt EXCEPT !.clock = ClockText(ClockSeconds(dt.clock) + seconds)]

\* a cell that pd.isna takes for missing gives ""
CellOrEmpty(v) == IF v.t = "None" THEN PyStr(<<>>) ELSE v

\* csv_handler.py lines 30-67: one row of the file loaded; ok is FALSE when
\* the start date or the duration does not parse.  Ids are kept as numbers,
\* their str() is taken where the payload is built.  Duration is in
\* hundredths of a second.
LoadRow(row) ==
    LET start_date == fromisoformat(ReplaceZ(row["StartDate"].s))
        duration_seconds == float(row["Duration"])
    IN  IF ~(start_date.ok /\ duration_seconds.ok)
        THEN [ok |-> FALSE, entry |-> <<>>]
        ELSE
        [ok |-> TRUE,
         entry |->
            [id |-> row["TimeEntryID"],
             activityId |-> row["ActivityID"],
             activityName |-> row["Activity"],
             startedAt |-> PyStr(isoformat(start_date)),
             stoppedAt |-> PyStr(isoformat(
                              AddSeconds(start_date, duration_seconds.v \div 100))),
             duration |-> PyNum(duration_seconds.v),
             billable |-> PyBool(ParseBillable(row["Billable"])),
             note |-> CellOrEmpty(row["Note"]),
             folder |-> [id |-> row["FolderId"], name |-> row["Folder"]],
             service |-> CellOrEmpty(row["service"])]]

\* load_time_entries_from_excel, lines 28-69
load_time_entries_from_excel(rows) ==
    IF \A i \in 1..Len(rows) : LoadRow(rows[i]).ok
    THEN [ok |-> TRUE, entries |-> [i \in 1..Len(rows) |-> LoadRow(rows[i]).entry]]
    ELSE [ok |-> FALSE, entries |-> <<>>]

\* main.py lines 98-112: the record main builds from one time entry; now is
\* what datetime.now() gives
MainEntry(entry, now) ==
    LET freshbooks_entry ==
            [duration |-> Get(entry, "duration_hours", PyNum(0)),
             startdate |-> Get(entry, "start_time", PyDateTime(now)),
             note |-> Get(entry, "note", PyStr(<<>>)),
             billable |-> PyBool(TRUE),
             activity |-> Get(entry, "activity_name", PyStr(<<>>))]
    IN  IF "folder" \in DOMAIN entry /\ DOMAIN entry["folder"] # {}
        THEN With(freshbooks_entry, "folderid", Get(entry["folder"], "id", 0))
        ELSE freshbooks_entry

\* sample rows of a file
sStartNaive == <<"2","0","2","4","-","0","1","-","0","2","T","0","9",":","0","0",":","0","0">>
sNote == <<"c","a","l","l">>
sFolder == <<"o","p","s">>
rAcme == [TimeEntryID |-> 1, StartDate |-> PyStr(sStartNaive),
          Duration |-> PyNum(540000), Billable |-> PyBool(FALSE),
          ActivityID |-> 3, Activity |-> PyStr(qAcmeLower), FolderId |-> 8,
          Folder |-> PyStr(sFolder), service |-> PyNone, Note |-> PyStr(sNote)]
rJohn == [TimeEntryID |-> 2, StartDate |-> PyStr(sStart),
          Duration |-> PyNum(360000), Billable |-> PyStr(<<"Y","e","s">>),
          ActivityID |-> 4, Activity |-> PyStr(qJohnDoe), FolderId |-> 8,
          Folder |-> PyStr(sFolder), service |-> PyNone, Note |-> PyNone]
rClock == [rAcme EXCEPT !["Duration"] = PyStr(<<"0","1",":","3","0",":","0","0">>)]
RowPool == {rAcme, rJohn, rClock}

\* sample entries of the API: one start, and stops after these seconds
StopsAfter == {0, 600, 900, 1200, 1800, 2160, 2700, 3600, 4500, 5400}
StampAfter(seconds) ==
    PyStr(<<"2","0","2","4","-","0","1","-","0","2","T">>
          \o ClockText(32400 + seconds) \o <<".","0","0","0">>)
aEntry(seconds) ==
    [id |-> 1, activity |-> [id |-> 3, name |-> PyStr(qAcmeLower)],
     duration |-> [startedAt |-> StampAfter(0), stoppedAt |-> StampAfter(seconds)],
     note |-> [text |-> PyStr(sNote), tags |-> <<>>]]
aOngoing ==
    [id |-> 2, activity |-> [id |-> 3, name |-> PyStr(qAcmeLower)],
     duration |-> [startedAt |-> StampAfter(0), stoppedAt |-> PyNone],
     note |-> [text |-> PyStr(sNote), tags |-> <<>>]]
aNoMillis ==
    [id |-> 3, activity |-> [id |-> 3, name |-> PyStr(qAcmeLower)],
     duration |-> [startedAt |-> PyStr(sStart), stoppedAt |-> PyStr(sStart)],
     note |-> [text |-> PyStr(sNote), tags |-> <<>>]]
ApiPool == {aEntry(s) : s \in StopsAfter} \cup {aOngoing, aNoMillis}

\* what main can read: a file or the API, with up to MaxRows rows
MainSources ==
    {[kind |-> "file", rows |-> rows, time_entries |-> <<>>] :
        rows \in SeqsUpTo(RowPool, MaxRows)}
    \cup {[kind |-> "api", rows |-> rows, time_entries |-> <<>>] :
            rows \in SeqsUpTo(ApiPool, MaxRows)}

\* what datetime.now() can give
Nows ==
    {[ok |-> TRUE, date |-> <<"2","0","2","4","-","0","3","-","0","5">>,
      clock |-> <<"1","2",":","0","0",":","0","0">>, aware |-> FALSE,
      offset |-> 0]}

\* what the source holds once it is read, and the records main builds from it
LoadedOf(src) ==
    IF src.kind = "file" THEN load_time_entries_from_excel(src.rows)
    ELSE format_entries(src.rows)
MainEntries ==
    UNION {{MainEntry(LoadedOf(src).entries[i], now) :
                i \in 1..Len(LoadedOf(src).entries), now \in Nows} :
           src \in MainSources}

eInitials == [startdate |-> PyStr(sStart), duration |-> PyNum(100),
              billable |-> PyBool(TRUE), activity |-> PyStr(qJD)]
FieldPool ==
    {eGood, eGarbage, eClock, eDecimal, eNo, eFalse, eBillable, eOne, eZero,
     eUnset, eExplicit, eExplicitOnly, eExplicitInitials, eEast, eInitials}
AllEntries == EntryPool \cup FieldPool \cup MainEntries

\* Transform and ClientNameOf, tabulated over the sample records
TransformOf == [e \in AllEntries |-> Transform(e)]
ClientNameTab == [e \in AllEntries |-> ClientNameOf(e)]

\* a lookup that loses the id of the record found (not what the code does)
ClientIdDropped(r) == [raised |-> r.raised, id |-> 0]

\* get_client_id_from_name: the id of the record found, 0 for None
ClientIdOf(r) ==
    [raised |-> r.raised, id |-> IF r.found THEN Get(r.value, "id", 0) ELSE 0]

get_client_id_from_name(name, index) == ClientIdOf(find_client_by_name(name, index))

\* self.identity_id: not set, or set to the id one of the three identity
\* requests gave.  (An id of None leaves the payload as a missing identity
\* does.)
NoIdentity == [set |-> FALSE, id |-> 0]
provIdentity == [set |-> TRUE, id |-> 7]
IdentityOutcomes == {"found", "missing"}

\* lines 103-104: get_identity_id runs when the attribute is not set
IdentityAfter(identity, who) ==
    IF identity.set THEN identity
    ELSE IF who = "found" THEN provIdentity
    ELSE NoIdentity

\* d[k] = v when cond holds
WithIf(d, cond, k, v) == IF cond THEN With(d, k, v) ELSE d

\* lines 66-110: the request payload
Payload(time_entry, t, client_id, identity) ==
    WithIf(
     WithIf(
      WithIf(
       WithIf(
        WithIf(
         WithIf([is_logged |-> TRUE, duration |-> t.duration,
                 note |-> Get(time_entry, "note", PyStr(<<>>)).s,
                 started_at |-> t.started_at, billable |-> t.billable],
                client_id # 0, "client_id", Str(client_id)),
         "client_id" \in DOMAIN time_entry,
         "client_id", Str(time_entry["client_id"])),
        "folderid" \in DOMAIN time_entry,
        "project_id", Str(time_entry["folderid"])),
       "service" \in DOMAIN time_entry /\ time_entry["service"] # 0,
       "service_id", Str(time_entry["service"])),
      ~(identity.set /\ identity.id # 0) /\ "identity_id" \in DOMAIN time_entry,
      "identity_id", Str(time_entry["identity_id"])),
     identity.set /\ identity.id # 0, "identity_id", Str(identity.id))

\* what the provider answers to the POST: 200/201 with a body, 200/201 with
\* an empty body, another status, or the request raises
PostOutcomes == {"created", "empty", "rejected", "exception"}
NoPayload == [is_logged |-> FALSE]
None == [truthy |-> FALSE, body |-> "None"]

\* lines 122-127: what create_time_entry returns after the POST
ResponseOf(post) ==
    IF post = "created" THEN [truthy |-> TRUE, body |-> "time_entry"]
    ELSE IF post = "empty" THEN [truthy |-> FALSE, body |-> "empty"]
    ELSE None

\* the record needs the customer index: lines 83-84 are reached
NeedsLookup(time_entry) ==
    TransformOf[time_entry].ok /\ ClientNameTab[time_entry] # <<>>

\* lines 83-84, when they are reached
LookupFor(time_entry, index) ==
    IF NeedsLookup(time_entry)
    THEN get_client_id_from_name(ClientNameTab[time_entry], index)
    ELSE [raised |-> FALSE, id |-> 0]

\* what the provider holds during a pipeline run
BatchProviderPages == {<< <<cAcme>> >>, << <<cAcme>>, <<cNull>> >>}

\* what self.clients can be during a run: not set, or built from the pages
\* one run of get_clients fetched
BatchIndexes ==
    {NoIndex} \cup UNION {{ClientsAfterGet(NoIndex, pages, fault) :
                               fault \in Faults(pages)} :
                           pages \in BatchProviderPages}

\* LookupFor, tabulated over the sample records and these indexes
LookupOf ==
    [time_entry \in AllEntries, index \in BatchIndexes |->
        LookupFor(time_entry, index)]

\* the call gets as far as the identity request and the POST
Reaches(time_entry, lookup) == TransformOf[time_entry].ok /\ ~lookup.raised

\* lines 103-127, when they are reached: the identity, the payload, the POST
Submit(time_entry, lookup, reaches, after, post) ==
    [raised |-> ~reaches \/ post = "exception",
     value |-> IF reaches THEN ResponseOf(post) ELSE None,
     posted |-> reaches,
     payload |-> IF reaches
                 THEN Payload(time_entry, TransformOf[time_entry], lookup.id, after)
                 ELSE NoPayload,
     identity |-> after]

\* The try block of create_time_entry, lines 51-127.  lookup is what the
\* customer lookup gave, who and post are the provider's answers to the
\* identity request and to the POST.
Attempt(time_entry, lookup, identity, who, post) ==
    Submit(time_entry, lookup, Reaches(time_entry, lookup),
           IF Reaches(time_entry, lookup) THEN IdentityAfter(identity, who)
           ELSE identity,
           post)

\* a call without the except clause (not what the code does)
Uncaught(outcome) == outcome

\* lines 129-132: except Exception: return None
Caught(outcome) ==
    IF outcome.raised THEN [outcome EXCEPT !.raised = FALSE, !.value = None]
    ELSE outcome

\* index is self.clients as the lookup finds it, after the fetch
\* find_client_by_name makes when the attribute is absent
create_time_entry(time_entry, index, identity, who, post) ==
    Caught(Attempt(time_entry, LookupOf[time_entry, index], identity, who, post))

(***************************************************************************)
(* State.                                                                  *)
(***************************************************************************)
VARIABLES
    provPages,      \* the provider's customers, page by page
    provServices,   \* the provider's services
    clients,        \* self.clients (NoIndex: the attribute is not set)
    services,       \* self.services
    ret,            \* the last call of the resolver interface and its outcome
    entries,        \* time_entries, the list handed to the batch call
    pc,             \* where the pipeline run is
    pos,            \* the position of the loop's current record
    result,         \* what create_time_entry returned for it
    successful,     \* the list of the same name
    failed,         \* the list of the same name
    stats,          \* the stats of the value returned
    posts,          \* the POSTs issued so far
    calls,          \* the calls of create_time_entry so far
    fetched,        \* how main's get_clients ended
    identity_id,    \* self.identity_id
    batchRaised,    \* the batch call was left by an exception
    matches,        \* the report handed to _deduplicate_fuzzy_matches
    key_field,      \* its key_field argument
    deduped,        \* the list it returned
    dpc,            \* whether it has been called
    source          \* what main read its time entries from, and what it read

resolverVars == <<provPages, provServices, clients, services, ret>>
batchVars == <<entries, pc, pos, result, successful, failed, stats, posts,
               calls, fetched, identity_id, batchRaised>>
dedupVars == <<matches, key_field, deduped, dpc>>
vars == <<resolverVars, batchVars, dedupVars, source>>

\* a page of customers: one record per page in the model
Pages == {<<c>> : c \in ClientPool}

\* what the provider may hold: no customer (one empty page), or 1..MaxPages
\* pages of different customers
ProviderPages ==
    {<< <<>> >>}
        \cup {p \in SeqsUpTo(Pages, MaxPages) \ {<<>>} :
                \A i, j \in 1..Len(p) : i # j => p[i] # p[j]}

NoCall ==
    [op |-> "none", arg |-> <<>>, found |-> FALSE, value |-> NoRecord,
     branch |-> "none", raised |-> FALSE, scored |-> 0, best_score |-> 0,
     repeat |-> FALSE]

\* the record of a call: what was asked and what came back; repeat tells
\* that the call before it asked the same of an index (before) already loaded
Call(op, arg, r, before) ==
    [op |-> op, arg |-> arg, found |-> r.found, value |-> r.value,
     branch |-> r.branch, raised |-> r.raised, scored |-> r.scored,
     best_score |-> r.best_score,
     repeat |-> ret.op = op /\ ret.arg = arg /\ before.loaded]

NoStats == [set |-> FALSE, total |-> 0, success |-> 0, failure |-> 0]
NoResult == [raised |-> FALSE, value |-> None, posted |-> FALSE,
             payload |-> NoPayload, identity |-> NoIdentity]

\* main has read nothing
NoSource == [kind |-> "none", rows |-> <<>>, time_entries |-> <<>>]

IdleBatch ==
    /\ source = NoSource
    /\ entries = <<>>
    /\ pc = "idle"
    /\ pos = 1
    /\ result = NoResult
    /\ successful = <<>>
    /\ failed = <<>>
    /\ stats = NoStats
    /\ posts = <<>>
    /\ calls = <<>>
    /\ fetched = "none"
    /\ identity_id = NoIdentity
    /\ batchRaised = FALSE

IdleDedup ==
    /\ matches = <<>>
    /\ key_field = "input"
    /\ deduped = <<>>
    /\ dpc = "idle"

IdleResolver ==
    /\ provServices \in ServiceCatalogues
    /\ clients = NoIndex
    /\ services = NoIndex
    /\ ret = NoCall

InitResolver ==
    /\ provPages \in ProviderPages
    /\ provServices \in ServiceCatalogues
    /\ clients = NoIndex
    /\ services = NoIndex
    /\ ret = NoCall
    /\ IdleBatch
    /\ IdleDedup

(***************************************************************************)
(* Operations of the resolver interface.                                   *)
(***************************************************************************)
GetClients ==
    \E fault \in Faults(provPages) :
        /\ clients' = ClientsAfterGet(clients, provPages, fault)
        /\ ret' = [op |-> "get_clients", arg |-> <<>>, found |-> FALSE,
                   value |-> NoRecord, branch |-> "none",
                   raised |-> GetClientsFails(provPages, fault), scored |-> 0,
                   best_score |-> 0, repeat |-> FALSE, fault |-> fault,
                   loop |-> PageLoop(provPages, fault, 1, <<>>)]
        /\ UNCHANGED <<provPages, provServices, services, batchVars, dedupVars, source>>

GetServices ==
    \E outcome \in ServiceOutcomes :
        /\ services' = ServicesAfterGet(services, provServices, outcome)
        /\ ret' = [NoCall EXCEPT !.op = "get_services"]
        /\ UNCHANGED <<provPages, provServices, clients, batchVars, dedupVars, source>>

\* the faults that can matter to a call that fetches only when needed
LazyFaults(index, pages) ==
    IF index.loaded THEN {NoFault} ELSE Faults(pages)

FindClientByName ==
    \E name \in Queries, fault \in LazyFaults(clients, provPages) :
        /\ clients' = ClientsAfterFind(clients, provPages, fault)
        /\ ret' = Call("find_client_by_name", name,
                       find_client_by_name(name, clients'), clients)
        /\ UNCHANGED <<provPages, provServices, services, batchVars, dedupVars, source>>

\* partial_match_client called directly: it reads self.clients as it is
PartialMatchClient ==
    \E name \in Queries :
        /\ ret' = Call("partial_match_client", name,
                       IF clients.loaded
                       THEN FromScan(partial_match_client(name, clients))
                       ELSE Raised,
                       clients)
        /\ UNCHANGED <<provPages, provServices, clients, services, batchVars, dedupVars, source>>

LazyOutcomes(index) == IF index.loaded THEN {"ok"} ELSE ServiceOutcomes

FindServiceByTag ==
    \E tag \in Tags, outcome \in LazyOutcomes(services) :
        /\ services' = ServicesAfterFind(services, provServices, outcome)
        /\ ret' = Call("find_service_by_tag", tag,
                       find_service_by_tag(tag, services'), services)
        /\ UNCHANGED <<provPages, provServices, clients, batchVars, dedupVars, source>>

\* one row of export_client_mappings: the activity is resolved, the match
\* type is read off by_name, and a fuzzy match is scored again by the replica
ExportClientRow(activity, index) ==
    LET r == find_client_by_name(activity, index)
    IN  IF r.raised \/ ~r.found THEN r
        ELSE IF DictHas(index.by_name, Lower(activity))
        THEN [r EXCEPT !.branch = "exact", !.best_score = One]
        ELSE IF CalcClientRaises(r.value) THEN Raised
        ELSE [r EXCEPT !.branch = "fuzzy",
                       !.best_score = CalcClientScoreOf[activity, r.value]]

\* export_client_mappings([activity]); an empty activity is skipped
ExportClientMappings ==
    \E activity \in Queries, fault \in LazyFaults(clients, provPages) :
        /\ clients' = ClientsAfterFind(clients, provPages, fault)
        /\ ret' = IF activity = <<>>
                  THEN [NoCall EXCEPT !.op = "export_client_mappings"]
                  ELSE Call("export_client_mappings", activity,
                            ExportClientRow(activity, clients'), clients)
        /\ UNCHANGED <<provPages, provServices, services, batchVars, dedupVars, source>>

\* one row of export_service_mappings
ExportServiceRow(tag, index) ==
    LET r == find_service_by_tag(tag, index)
    IN  IF r.raised \/ ~r.found THEN r
        ELSE IF DictHas(index.by_name, Lower(tag))
        THEN [r EXCEPT !.branch = "exact", !.best_score = One]
        ELSE [r EXCEPT !.branch = "fuzzy",
                       !.best_score = CalcServiceScoreOf[tag, r.value]]

\* export_service_mappings([tag])
ExportServiceMappings ==
    \E tag \in Tags, outcome \in LazyOutcomes(services) :
        /\ services' = ServicesAfterFind(services, provServices, outcome)
        /\ ret' = Call("export_service_mappings", tag,
                       ExportServiceRow(tag, services'), services)
        /\ UNCHANGED <<provPages, provServices, clients, batchVars, dedupVars, source>>

NextResolver ==
    \/ GetClients
    \/ GetServices
    \/ FindClientByName
    \/ PartialMatchClient
    \/ FindServiceByTag
    \/ ExportClientMappings
    \/ ExportServiceMappings

Spec == InitResolver /\ [][NextResolver]_vars

\* get_clients alone, over the provider contents drawn from IndexPool
IndexProviderPages ==
    {<< <<>> >>}
        \cup {p \in SeqsUpTo({<<c>> : c \in IndexPool}, MaxPages) \ {<<>>} :
                \A i, j \in 1..Len(p) : i # j => p[i] # p[j]}

InitIndex ==
    /\ provPages \in IndexProviderPages
    /\ IdleResolver
    /\ IdleBatch
    /\ IdleDedup

SpecIndex == InitIndex /\ [][GetClients]_vars

(***************************************************************************)
(* main and FreshbooksClient.create_time_entries_batch.                    *)
(***************************************************************************)
\* the input lists
EntryLists == SeqsUpTo(EntryPool, MaxBatch)

InitBatch ==
    /\ provPages \in BatchProviderPages
    /\ IdleResolver
    /\ IdleDedup
    /\ entries \in EntryLists
    /\ source = NoSource
    /\ pc = "fetch"
    /\ pos = 1
    /\ result = NoResult
    /\ successful = <<>>
    /\ failed = <<>>
    /\ stats = NoStats
    /\ posts = <<>>
    /\ calls = <<>>
    /\ fetched = "none"
    /\ identity_id = NoIdentity
    /\ batchRaised = FALSE

\* main, line 47: freshbooks_client.get_clients(); the value returned is
\* dropped and the run goes on
MainGetClients ==
    /\ pc = "fetch"
    /\ \E fault \in Faults(provPages) :
        /\ clients' = ClientsAfterGet(clients, provPages, fault)
        /\ fetched' = IF GetClientsFails(provPages, fault) THEN "failed" ELSE "ok"
    /\ pc' = IF source.kind = "none" THEN "loop" ELSE "load"
    /\ UNCHANGED <<provPages, provServices, services, ret, dedupVars, source, entries,
                   pos, result, successful, failed, stats, posts, calls,
                   identity_id, batchRaised>>

\* a submission that is sent again when it is rejected (not what the code does)
PostsRetried(log, position, outcome, post) ==
    LET sent == [pos |-> position, payload |-> outcome.payload, answer |-> post]
    IN  IF ~outcome.posted THEN log
        ELSE IF post = "rejected" THEN log \o <<sent, sent>>
        ELSE Append(log, sent)

\* the POST of line 120, logged with the record's position and the answer
PostsAfter(log, position, outcome, post) ==
    IF outcome.posted
    THEN Append(log, [pos |-> position, payload |-> outcome.payload,
                      answer |-> post])
    ELSE log

\* the provider's answers a call of create_time_entry can consume
FaultsFor(time_entry, index, pages) ==
    IF NeedsLookup(time_entry) THEN LazyFaults(index, pages) ELSE {NoFault}

\* self.clients after the call
ClientsAfterEntry(time_entry, index, pages, fault) ==
    IF NeedsLookup(time_entry) THEN ClientsAfterFind(index, pages, fault)
    ELSE index

WhoFor(reaches, identity) ==
    IF reaches /\ ~identity.set THEN IdentityOutcomes ELSE {"missing"}

PostsFor(reaches) == IF reaches THEN PostOutcomes ELSE {"none"}

\* the call has returned r
Returned(index, who, post, r) ==
    /\ clients' = index
    /\ identity_id' = r.identity
    /\ result' = r
    /\ posts' = PostsAfter(posts, pos, r, post)
    /\ calls' = Append(calls, [pos |-> pos, index |-> index,
                               identity |-> identity_id, who |-> who,
                               post |-> post])

\* the provider answers the identity request and the POST
Answered(entry, index, reaches) ==
    \E who \in WhoFor(reaches, identity_id), post \in PostsFor(reaches) :
        Returned(index, who, post,
                 create_time_entry(entry, index, identity_id, who, post))

CalledWith(entry, index) ==
    Answered(entry, index, Reaches(entry, LookupOf[entry, index]))

\* line 148: result = self.create_time_entry(entry)
CreateTimeEntry ==
    /\ pc = "loop"
    /\ pos <= Len(entries)
    /\ \E fault \in FaultsFor(entries[pos], clients, provPages) :
        CalledWith(entries[pos],
                   ClientsAfterEntry(entries[pos], clients, provPages, fault))
    /\ pc' = "record"
    /\ UNCHANGED <<provPages, provServices, services, ret, dedupVars, source, entries,
                   pos, successful, failed, stats, fetched, batchRaised>>

\* lines 149-153: successful.append({"original": entry, "response": result})
SuccessfulAfter(list, position, entry, r) ==
    IF r.value.truthy
    THEN Append(list, [pos |-> position, original |-> entry,
                       response |-> r.value])
    ELSE list

\* a loop that forgets the records it could not create (not what the code does)
FailedLost(list, position, entry, r) == list

\* lines 154-155: failed.append(entry)
FailedAfter(list, position, entry, r) ==
    IF r.value.truthy THEN list
    ELSE Append(list, [pos |-> position, original |-> entry])

\* lines 149-155, and the next iteration of the loop; an exception out of
\* create_time_entry would leave the loop and the call
RecordOutcome ==
    /\ pc = "record"
    /\ IF result.raised
       THEN /\ batchRaised' = TRUE
            /\ pc' = "done"
            /\ UNCHANGED <<successful, failed, pos>>
       ELSE /\ successful' = SuccessfulAfter(successful, pos, entries[pos], result)
            /\ failed' = FailedAfter(failed, pos, entries[pos], result)
            /\ pos' = pos + 1
            /\ pc' = "loop"
            /\ UNCHANGED batchRaised
    /\ UNCHANGED <<resolverVars, dedupVars, source, entries, result, stats, posts,
                   calls, fetched, identity_id>>

\* lines 157-165: the value returned
StatsOf(time_entries, good, bad) ==
    [set |-> TRUE, total |-> Len(time_entries), success |-> Len(good),
     failure |-> Len(bad)]

ReturnBatch ==
    /\ pc = "loop"
    /\ pos > Len(entries)
    /\ stats' = StatsOf(entries, successful, failed)
    /\ pc' = "done"
    /\ UNCHANGED <<resolverVars, dedupVars, source, entries, pos, result, successful,
                   failed, posts, calls, fetched, identity_id, batchRaised>>

NextBatch ==
    \/ MainGetClients
    \/ CreateTimeEntry
    \/ RecordOutcome
    \/ ReturnBatch

SpecBatch == InitBatch /\ [][NextBatch]_vars

\* a run over one record, the record drawn from the samples for the fields
InitEntry ==
    /\ provPages \in BatchProviderPages
    /\ IdleResolver
    /\ IdleDedup
    /\ entries \in {<<e>> : e \in FieldPool}
    /\ source = NoSource
    /\ pc = "fetch"
    /\ pos = 1
    /\ result = NoResult
    /\ successful = <<>>
    /\ failed = <<>>
    /\ stats = NoStats
    /\ posts = <<>>
    /\ calls = <<>>
    /\ fetched = "none"
    /\ identity_id = NoIdentity
    /\ batchRaised = FALSE

SpecEntry == InitEntry /\ [][NextBatch]_vars

(***************************************************************************)
(* Deduplicating a report.                                                 *)
(***************************************************************************)
MatchLists == SeqsUpTo(MatchPool, MaxMatches)

InitDedup ==
    /\ provPages \in {<< <<>> >>}
    /\ IdleResolver
    /\ IdleBatch
    /\ matches \in MatchLists
    /\ key_field \in KeyFields
    /\ deduped = <<>>
    /\ dpc = "call"

Deduplicate ==
    /\ dpc = "call"
    /\ deduped' = _deduplicate_fuzzy_matches(matches, key_field)
    /\ dpc' = "done"
    /\ UNCHANGED <<resolverVars, batchVars, matches, key_field, source>>

NextDedup == Deduplicate

SpecDedup == InitDedup /\ [][NextDedup]_vars

(***************************************************************************)
(* Properties of the resolver.                                             *)
(***************************************************************************)
EqualsUpToCaseAndSpace(q, display) == Strip(Lower(q)) = Strip(Lower(display))

ExactFor(index) ==
    \A i \in 1..Len(index.by_name) :
        EqualsUpToCaseAndSpace(ret.arg, index.by_name[i][1]) =>
            ret.branch = "exact" /\ ret.value = index.by_name[i][2]

\* C1: on a loaded index, a query that equals a stored display string up to
\* letter case and leading/trailing whitespace is answered by
\* find_client_by_name / find_service_by_tag through the exact-match branch,
\* with the record stored under that key and without a fuzzy scan.
C1_ExactUpToCaseAndSpace ==
    /\ (ret.op = "find_client_by_name" /\ clients.loaded) => ExactFor(clients)
    /\ (ret.op = "find_service_by_tag" /\ services.loaded) => ExactFor(services)

\* C2: every score the matcher computes or reports (the running best of the
\* scans, the values of the two replicas) lies in [0, 1].
C2_ScoreInUnitInterval == 0 <= ret.best_score /\ ret.best_score <= One

\* the token set of a query, as each scan computes it, is empty
NoClientTokens(name) == \A tok \in Words(name) : tok \in client_stop_words
NoServiceTokens(tag) ==
    \A tok \in Words(Lower(tag)) :
        tok \in (base_stop_words \cup service_stop_words) \/ Len(tok) <= 1

NothingScored == ret.scored = 0 /\ ~ret.found /\ ~ret.raised

SameAnswer ==
    /\ ret'.found = ret.found
    /\ ret'.value = ret.value
    /\ ret'.raised = ret.raised

\* C6: resolving the same query twice running against a loaded index returns
\* the same record both times, and the second call leaves the index as the
\* first call saw it.
C6_SameQuerySameRecord ==
    [][/\ (ret.op = "find_client_by_name" /\ ret'.op = ret.op
                /\ ret'.arg = ret.arg /\ clients.loaded)
            => (SameAnswer /\ clients' = clients)
       /\ (ret.op = "find_service_by_tag" /\ ret'.op = ret.op
                /\ ret'.arg = ret.arg /\ services.loaded)
            => (SameAnswer /\ services' = services)]_vars

\* the second of two equal fuzzy queries, against an index cut short by a
\* failed page
C6_Witness ==
    /\ ret.op = "find_client_by_name"
    /\ ret.repeat
    /\ ret.branch = "fuzzy"
    /\ Len(provPages) > Len(clients.all)

\* C8: with a loaded index, find_client_by_name, partial_match_client and
\* find_service_by_tag never raise, whatever the query and the records.
C8_ResolveNeverRaises ==
    /\ (ret.op \in {"find_client_by_name", "partial_match_client"}
            /\ clients.loaded) => ~ret.raised
    /\ (ret.op = "find_service_by_tag" /\ services.loaded) => ~ret.raised

(***************************************************************************)
(* Properties of _deduplicate_fuzzy_matches.                               *)
(***************************************************************************)
KeysOf(list) == {MatchKey(list[i], key_field) : i \in 1..Len(list)}
WithKey(list, key) == {i \in 1..Len(list) : MatchKey(list[i], key_field) = key}

\* C7: the list returned holds exactly one entry for each key value of the
\* input; the entry is an input entry with that key, and its score is the
\* greatest score the input holds for that key.
C7_OnePerKeyWithBestScore ==
    dpc = "done" =>
        /\ KeysOf(deduped) = KeysOf(matches)
        /\ \A key \in KeysOf(matches) : Cardinality(WithKey(deduped, key)) = 1
        /\ \A d \in 1..Len(deduped) :
            LET same == WithKey(matches, MatchKey(deduped[d], key_field))
            IN  /\ \E i \in same : matches[i] = deduped[d]
                /\ \A i \in same : matches[i].score <= deduped[d].score

\* a key that comes three times, its best score in the middle
C7_Witness ==
    /\ dpc = "done"
    /\ Len(matches) = 3
    /\ Len(deduped) = 1
    /\ matches[1].score < matches[2].score
    /\ matches[3].score < matches[2].score

(***************************************************************************)
(* Properties of the pipeline run.                                         *)
(***************************************************************************)
Positions(list) == [i \in 1..Len(list) |-> list[i].pos]
Increasing(s) == \A i \in 1..(Len(s) - 1) : s[i] < s[i + 1]
Range(s) == {s[i] : i \in 1..Len(s)}
Originals(list) == \A i \in 1..Len(list) : list[i].original = entries[list[i].pos]

\* the record's duration is there and is no number
GarbageDuration(time_entry) ==
    "duration" \in DOMAIN time_entry /\ ~float(time_entry["duration"]).ok

\* the provider created the record at this position
Accepted(position) ==
    \E k \in 1..Len(posts) :
        posts[k].pos = position /\ posts[k].answer = "created"

\* C3: when create_time_entries_batch has returned, every input record is in
\* exactly one of successful and failed, each list is in input order, total
\* is the length of the input and success + failure = total; with three
\* records of which the second has a non-numeric duration and the other two
\* are created by the provider, the stats are 3, 2, 1 and failed holds
\* exactly record 2.
C3_BatchPartition ==
    (pc = "done" /\ ~batchRaised) =>
        /\ Range(Positions(successful)) \cup Range(Positions(failed))
                = 1..Len(entries)
        /\ Range(Positions(successful)) \cap Range(Positions(failed)) = {}
        /\ Increasing(Positions(successful))
        /\ Increasing(Positions(failed))
        /\ Originals(successful)
        /\ Originals(failed)
        /\ stats.set
        /\ stats.total = Len(entries)
        /\ stats.success = Len(successful)
        /\ stats.failure = Len(failed)
        /\ stats.success + stats.failure = stats.total
        /\ (Len(entries) = 3 /\ GarbageDuration(entries[2])
                /\ Accepted(1) /\ Accepted(3))
            => /\ stats = [set |-> TRUE, total |-> 3, success |-> 2, failure |-> 1]
               /\ Positions(failed) = <<2>>
               /\ Positions(successful) = <<1, 3>>

\* three records, the second with a garbage duration, the others created
C3_Witness ==
    /\ pc = "done"
    /\ Len(entries) = 3
    /\ entries[2] = eGarbage
    /\ Accepted(1)
    /\ Accepted(3)
    /\ stats.failure = 1

\* what create_time_entry gives for the record of call k on its own, with
\* the index, the identity and the provider's answers that call had
Alone(k) ==
    create_time_entry(entries[calls[k].pos], calls[k].index,
                      calls[k].identity, calls[k].who, calls[k].post)

\* the outcome of call k has been recorded
Recorded(k) == k < pos \/ pc = "done"

\* C4: an exception while one record is transformed or submitted never
\* leaves create_time_entries_batch; the record goes to failed, every
\* record of the list is still processed, and each record's outcome is what
\* create_time_entry gives for that record on its own.
C4_FailureStaysWithRecord ==
    /\ ~batchRaised
    /\ Positions(calls) = [k \in 1..Len(calls) |-> k]
    /\ pc = "done" => Len(calls) = Len(entries)
    /\ LET good == Range(Positions(successful))
           bad == Range(Positions(failed))
       IN  \A k \in 1..Len(calls) :
            Recorded(k) =>
                IF Alone(k).value.truthy
                THEN k \in good /\ k \notin bad
                ELSE k \in bad /\ k \notin good

\* a start date missing, then a POST that raised, then a record created
C4_Witness ==
    /\ pc = "done"
    /\ Len(entries) = 3
    /\ entries[1] = eNoDate
    /\ calls[2].post = "exception"
    /\ Positions(successful) = <<3>>
    /\ Positions(failed) = <<1, 2>>

\* C9: when main's get_clients fails, the run stops before any record is
\* handed to create_time_entry and before any POST.
C9_FetchFailureStopsRun ==
    fetched = "failed" => (calls = <<>> /\ posts = <<>>)

\* C10: the POSTs go out in input order, one at most for a record; a record
\* whose POST is rejected or raises is put in failed and not sent again; a
\* POST is issued only when the outcome of every earlier record is recorded.
C10_PostsInOrderNoRetry ==
    /\ [](/\ Increasing(Positions(posts))
          /\ \A k \in 1..Len(posts) :
                (posts[k].answer \in {"rejected", "exception"}
                    /\ (posts[k].pos < pos \/ pc = "done"))
                => /\ posts[k].pos \in Range(Positions(failed))
                   /\ posts[k].pos \notin Range(Positions(successful)))
    /\ [][posts' # posts =>
            /\ Len(posts') = Len(posts) + 1
            /\ SubSeq(posts', 1, Len(posts)) = posts
            /\ posts'[Len(posts')].pos = pos
            /\ Len(successful) + Len(failed) = pos - 1]_vars

\* three POSTs, the second rejected
C10_Witness ==
    /\ pc = "done"
    /\ Positions(posts) = <<1, 2, 3>>
    /\ posts[2].answer = "rejected"
    /\ Positions(failed) = <<2>>

\* C11: with the index built from the single customer {John, Doe, Acme Corp},
\* find_client_by_name("john doe") answers with that record through the
\* exact-match branch, and find_client_by_name("Acme") answers with the same
\* record as a fuzzy match whose score is at least the threshold.
C11_JohnDoeAndAcmeResolve ==
    (ret.op = "find_client_by_name" /\ clients.loaded /\ clients.all = <<cAcme>>) =>
        /\ ret.arg = qJohnDoe => (ret.branch = "exact" /\ ret.value = cAcme)
        /\ ret.arg = qAcme =>
               /\ ret.found
               /\ ret.value = cAcme
               /\ ret.branch = "fuzzy"
               /\ ret.best_score >= ClientThreshold

\* the query relates to the customer through its initials only: the initials
\* bonus applies, and under no by_name key of the customer is there a shared
\* token, a substring hit or a containment of the raw strings
OnlyInitials(name, client, index) ==
    LET input_tokens == InputTokensClient(name)
    IN  /\ InitialTerm(input_tokens, client) > 0
        /\ ClientSubstringHits(input_tokens, client) = 0
        /\ \A i \in 1..Len(index.by_name) :
              index.by_name[i][2] = client =>
                  /\ OverlapTerm(input_tokens, ClientTokens(index.by_name[i][1])) = 0
                  /\ ClientBoost(name, index.by_name[i][1]) = 0

EntryOf(k) == entries[calls[k].pos]
DateParses(time_entry) ==
    /\ "startdate" \in DOMAIN time_entry
    /\ time_entry["startdate"].t = "str"
    /\ fromisoformat(ReplaceZ(time_entry["startdate"].s)).ok

\* the POST of call k carried a payload with this value in this field
Posted(k, field, v) ==
    \E i \in 1..Len(posts) :
        /\ posts[i].pos = calls[k].pos
        /\ field \in DOMAIN posts[i].payload
        /\ posts[i].payload[field] = v

\* C13: the duration of a submitted payload is in whole seconds: a number of
\* decimal hours h gives h * 3600 (2.5 gives 9000), a text HH:MM:SS gives
\* HH * 3600 + MM * 60 + SS ("01:30:00" gives 5400), and a record with such a
\* duration is submitted, not rejected.
C13_DurationInWholeSeconds ==
    \A k \in 1..Len(calls) :
        LET duration == EntryOf(k)["duration"]
        IN  (/\ DateParses(EntryOf(k))
             /\ "duration" \in DOMAIN EntryOf(k)
             /\ ~LookupOf[EntryOf(k), calls[k].index].raised) =>
                /\ duration.t = "num" =>
                       Posted(k, "duration", (duration.v * 3600) \div 100)
                /\ (duration.t = "str" /\ IsClock(duration.s)) =>
                       Posted(k, "duration", ClockSeconds(duration.s))

\* the part of C13 the code keeps: decimal hours, as a number or as text
C13_DecimalHoursSubmitted ==
    /\ \A k \in 1..Len(calls) :
          (EntryOf(k) = eGood /\ ~LookupOf[eGood, calls[k].index].raised) =>
              Posted(k, "duration", 9000)
    /\ \A k \in 1..Len(calls) : EntryOf(k) = eDecimal => Posted(k, "duration", 9000)

\* the billable values the flag is said to be true for: the boolean true,
\* the number 1, and the texts yes, true, 1 and y in any letter case
sTrue == <<"t","r","u","e">>
SaidBillable(x) ==
    \/ x.t = "bool" /\ x.b
    \/ x.t = "num" /\ x.v = 100
    \/ x.t = "str" /\ Lower(x.s) \in {Lower(sYes), sTrue, <<"1">>, <<"y">>}

\* C14: the billable flag of a submitted payload is true exactly when the
\* record's billable value is the boolean true, the number 1, or one of the
\* texts yes, true, 1, y in any letter case; every other text ("no", "false",
\* "billable") and the number 0 give false.
C14_BillableOnlyForAffirmatives ==
    \A k \in 1..Len(calls) :
        (TransformOf[EntryOf(k)].ok /\ "billable" \in DOMAIN EntryOf(k)
         /\ ~LookupOf[EntryOf(k), calls[k].index].raised) =>
            Posted(k, "billable", SaidBillable(EntryOf(k)["billable"]))

\* what the code does with the sample values of C14: Python truthiness
C14_BillableIsTruthiness ==
    \A k \in 1..Len(calls) :
        /\ EntryOf(k) \in {eDecimal, eNo, eFalse, eBillable, eOne} =>
               Posted(k, "billable", TRUE)
        /\ EntryOf(k) \in {eZero, eUnset} => Posted(k, "billable", FALSE)

\* C15: every item of the failed list carries the reason the failure was
\* captured with, together with the original record, so that one reason can
\* be printed per failed item.
C15_FailedItemsCarryReason ==
    \A i \in 1..Len(failed) :
        /\ "original" \in DOMAIN failed[i]
        /\ "reason" \in DOMAIN failed[i]

\* what the failed list does hold: the original records alone, the same item
\* whether the record raised inside the call or the provider refused it
C15_FailedItemsAreTheRecords ==
    \A i \in 1..Len(failed) :
        /\ DOMAIN failed[i] = {"pos", "original"}
        /\ failed[i].original = entries[failed[i].pos]

\* the candidates of a scan, entry by entry in the order of by_name
ClientCandidates(name, index) ==
    [i \in 1..Len(index.by_name) |->
        ClientCandidateOf[name, index.by_name[i][1], index.by_name[i][2]]]
ServiceCandidates(tag, index) ==
    [i \in 1..Len(index.by_name) |->
        ServiceCandidateOf[ServiceLookupKey(tag), index.by_name[i][1],
                           index.by_name[i][2]]]

\* the entries a scan scores, and those of them that attain the maximum
ScoredEntries(cands) == {i \in DOMAIN cands : ~cands[i].skipped}
MaxEntries(cands) ==
    {i \in ScoredEntries(cands) :
        \A j \in ScoredEntries(cands) : cands[j].score <= cands[i].score}

\* the position of the entry the scan is said to return, 0 for None
SelectedEntry(cands, threshold) ==
    IF \E i \in MaxEntries(cands) : cands[i].score >= threshold
    THEN CHOOSE i \in MaxEntries(cands) : \A j \in MaxEntries(cands) : i <= j
    ELSE 0

ReturnsEntry(i, index) ==
    IF i = 0 THEN ~ret.found /\ ret.value = NoRecord
    ELSE ret.found /\ ret.value = index.by_name[i][2]

\* C16: when the index holds no exact key for the query, a fuzzy scan that
\* runs to its end returns a record if and only if the maximum score over the
\* entries it scores is at least the threshold (0.4 customers, 0.35
\* services), the record returned is that of the first entry in insertion
\* order attaining the maximum, and otherwise None is returned.
C16_FirstMaximumAboveThreshold ==
    /\ (/\ ret.op \in {"find_client_by_name", "partial_match_client"}
        /\ clients.loaded
        /\ ret.branch \in {"fuzzy", "none"}) =>
            ReturnsEntry(SelectedEntry(ClientCandidates(ret.arg, clients),
                                       ClientThreshold), clients)
    /\ (/\ ret.op = "find_service_by_tag"
        /\ services.loaded
        /\ ret.branch \in {"fuzzy", "none"}) =>
            ReturnsEntry(SelectedEntry(ServiceCandidates(ret.arg, services),
                                       ServiceThreshold), services)

\* two entries with different records tie at a maximum above the threshold,
\* and the record of the earlier one is returned
C16_Witness ==
    /\ ret.op = "find_service_by_tag"
    /\ ret.arg = tWeb
    /\ services.loaded
    /\ ret.branch = "fuzzy"
    /\ ret.value = sWeb
    /\ ret.best_score >= ServiceThreshold
    /\ \E i, j \in MaxEntries(ServiceCandidates(tWeb, services)) :
          /\ i < j
          /\ services.by_name[i][2] = sWeb
          /\ services.by_name[j][2] = sWebDev

\* the unclamped sum: 0.6 * overlap + 0.3 * substring + 0.1 * bonus + boost
WeightedSum(name, key, client) ==
    OverlapTerm(InputTokensClient(name), ClientTokens(key))
    + SubstringTerm(ClientSubstringHits(InputTokensClient(name), client),
                    Cardinality(InputTokensClient(name)))
    + InitialTerm(InputTokensClient(name), client)
    + ClientBoost(name, key)

\* the entry a customer scan accepted
AcceptedEntry == SelectedEntry(ClientCandidates(ret.arg, clients), ClientThreshold)

\* C17: the score the customer resolver accepts a match with equals
\* min(1, 0.6 * overlap + 0.3 * substring + 0.1 * bonus + boost), with
\* overlap = |query tokens /\ candidate tokens| / min of the two sizes,
\* substring = min(1, 0.5 * hits / |query tokens|), bonus 0.8 or 0, and
\* boost a flat 0.2 when the raw query contains the candidate's key or the
\* key contains the query.
C17_ScoreIsClampedWeightedSum ==
    (/\ ret.op \in {"find_client_by_name", "partial_match_client"}
     /\ clients.loaded
     /\ ret.branch = "fuzzy") =>
        ret.best_score =
            Min(One, WeightedSum(ret.arg, clients.by_name[AcceptedEntry][1],
                                 clients.by_name[AcceptedEntry][2]))

\* what the code does: the same sum, never cut at 1
C17_ScoreIsWeightedSum ==
    (/\ ret.op \in {"find_client_by_name", "partial_match_client"}
     /\ clients.loaded
     /\ ret.branch = "fuzzy") =>
        ret.best_score =
            WeightedSum(ret.arg, clients.by_name[AcceptedEntry][1],
                        clients.by_name[AcceptedEntry][2])

\* the display strings of a customer: the full name, the organization, and
\* "full name - organization" when both exist
DisplayStrings(client) ==
    LET full_name == FullName(client)
        organization == Get(client, "organization", PyStr(<<>>))
    IN  (IF full_name # <<>> THEN {full_name} ELSE {})
        \cup (IF Truthy(organization) THEN {organization.s} ELSE {})
        \cup (IF full_name # <<>> /\ Truthy(organization)
              THEN {full_name \o <<" ","-"," ">> \o organization.s} ELSE {})

\* the keys a customer is said to be stored under
SaidKeys(client) ==
    {Strip(Lower(d)) : d \in {x \in DisplayStrings(client) : Strip(x) # <<>>}}

\* the last record of the input that produces the key
LastWith(key, records) ==
    records[CHOOSE i \in 1..Len(records) :
                /\ key \in SaidKeys(records[i])
                /\ \A j \in 1..Len(records) :
                      key \in SaidKeys(records[j]) => j <= i]

IndexAsSaid(index) ==
    /\ DictKeys(index.by_name)
           = UNION {SaidKeys(index.all[i]) : i \in 1..Len(index.all)}
    /\ \A key \in DictKeys(index.by_name) :
           DictGet(index.by_name, key) = LastWith(key, index.all)
    /\ \A i \in 1..Len(index.all) :
           (SaidKeys(index.all[i]) = {} /\ "id" \in DOMAIN index.all[i]) =>
               /\ DictHas(index.by_id, index.all[i].id)
               /\ DictGet(index.by_id, index.all[i].id) = index.all[i]

\* C18: after get_clients the keys of by_name are exactly the lower-cased,
\* trimmed, non-empty display strings of the records (full name,
\* organization, "full name - organization" when both exist), each key maps
\* to the last record in input order that produced it, and a record with no
\* display string adds no key to by_name but is in by_id under its id.
C18_KeysAreTrimmedDisplayStrings == clients.loaded => IndexAsSaid(clients)

\* the same, for the inputs whose organizations carry no outer whitespace
C18_KeysOfTrimmedInputs ==
    (clients.loaded /\ \A i \in 1..Len(clients.all) : clients.all[i] # cPad) =>
        IndexAsSaid(clients)

\* C19: within one pipeline run the customer collection is fetched and the
\* index built at most once: after main's get_clients call no call of
\* create_time_entry (through find_client_by_name) fetches again or changes
\* by_id / by_name, whether the first fetch succeeded or failed.
C19_IndexFetchedOnce ==
    /\ fetched = "failed" => clients = NoIndex
    /\ \A k \in 2..Len(calls) : calls[k].index = calls[k - 1].index

\* the part of C19 the code keeps: an index the first fetch built is never
\* fetched or changed again
C19_LoadedIndexIsKept ==
    fetched = "ok" => \A k \in 1..Len(calls) : calls[k].index = clients

\* the record carries an explicit client_id
HasExplicitId(time_entry) == "client_id" \in DOMAIN time_entry

\* C20: when a record carries an explicit client_id, the client_id of the
\* payload equals it whatever the query and the index are, and the customer
\* query is resolved against the index only when no explicit identifier is
\* present: the call for such a record neither depends on nor touches the
\* index.
C20_ExplicitIdSkipsLookup ==
    \A k \in 1..Len(calls) :
        (HasExplicitId(EntryOf(k)) /\ TransformOf[EntryOf(k)].ok) =>
            /\ Posted(k, "client_id", Str(EntryOf(k)["client_id"]))
            /\ fetched = "failed" => calls[k].index = NoIndex

\* the part of C20 the code keeps: a payload that is sent for a record with
\* an explicit client_id carries that identifier, not the one looked up
C20_ExplicitIdWins ==
    \A i \in 1..Len(posts) :
        HasExplicitId(entries[posts[i].pos]) =>
            /\ "client_id" \in DOMAIN posts[i].payload
            /\ posts[i].payload["client_id"]
                   = Str(entries[posts[i].pos]["client_id"])

(***************************************************************************)
(* ServicesMixin: the service of a time entry, and the fuzzy-match report  *)
(* entry of a time entry.                                                  *)
(***************************************************************************)
\* tags a record may carry (a bound of the model)
MaxTags == 2

\* str.split(sep) for a one-character sep: empty pieces are kept
RECURSIVE SplitOnAcc(_, _, _, _)
SplitOnAcc(s, sep, cur, acc) ==
    IF s = <<>> THEN Append(acc, cur)
    ELSE IF Head(s) = sep THEN SplitOnAcc(Tail(s), sep, <<>>, Append(acc, cur))
    ELSE SplitOnAcc(Tail(s), sep, Append(cur, Head(s)), acc)
SplitOn(s, sep) == SplitOnAcc(s, sep, <<>>, <<>>)

\* a list of tag objects {label: ...} (Timeular API), a list of strings
PyDicts(labels) == [t |-> "dicts", s |-> <<>>, labels |-> labels]
PyList(items) == [t |-> "list", s |-> <<>>, items |-> items]

\* the truth value of a field of a time entry
NonEmpty(v) ==
    \/ v.t = "str" /\ v.s # <<>>
    \/ v.t = "dicts" /\ v.labels # <<>>
    \/ v.t = "list" /\ v.items # <<>>

\* 'tags' in time_entry and isinstance(time_entry['tags'], list) and
\* time_entry['tags'] and isinstance(time_entry['tags'][0], dict)
IsTimeularApi(time_entry) ==
    "tags" \in DOMAIN time_entry /\ time_entry["tags"].t = "dicts"
    /\ time_entry["tags"].labels # <<>>

\* the labels of the tag objects that have one
TagLabels(time_entry) ==
    SelectSeq(time_entry["tags"].labels, LAMBDA label : label # <<>>)

\* the first of the fields that is present and truthy, "" when none is
tag_fields == <<"tags", "tag", "servicetag", "service_tag", "service">>
TagFieldUsed(time_entry) ==
    LET present == {i \in 1..Len(tag_fields) :
                       /\ tag_fields[i] \in DOMAIN time_entry
                       /\ NonEmpty(time_entry[tag_fields[i]])}
    IN  IF present = {} THEN ""
        ELSE tag_fields[CHOOSE i \in present : \A j \in present : i <= j]

\* [t.strip() for t in tags.split(sep)]
StripEach(pieces) == [i \in 1..Len(pieces) |-> Strip(pieces[i])]

\* the tag list of the CSV format: a text is split at commas, else at
\* semicolons, else taken whole; a list is taken as it is
ParseTags(tags) ==
    IF tags.t = "str"
    THEN IF \E i \in 1..Len(tags.s) : tags.s[i] = ","
         THEN StripEach(SplitOn(tags.s, ","))
         ELSE IF \E i \in 1..Len(tags.s) : tags.s[i] = ";"
         THEN StripEach(SplitOn(tags.s, ";"))
         ELSE <<Strip(tags.s)>>
    ELSE tags.items

\* the candidate tags of a time entry, in the order they are tried
CandidateTags(time_entry) ==
    IF IsTimeularApi(time_entry) THEN TagLabels(time_entry)
    ELSE IF TagFieldUsed(time_entry) = "" THEN <<>>
    ELSE ParseTags(time_entry[TagFieldUsed(time_entry)])

\* get_service_id_from_tag: the id of the service found, 0 for None
get_service_id_from_tag(tag, index) ==
    LET r == find_service_by_tag(tag, index)
    IN  IF r.found THEN Get(r.value, "id", 0) ELSE 0

NoService == [service_id |-> 0, tag |-> <<>>, tried |-> <<>>]

\* the lookup of one tag by the loop, acc being what the loop has so far
TryTag(acc, tag, index) ==
    LET service_id == get_service_id_from_tag(tag, index)
        tried == Append(acc.tried, tag)
    IN  IF service_id # 0
        THEN [service_id |-> service_id, tag |-> tag, tried |-> tried]
        ELSE [acc EXCEPT !.tried = tried]

\* a loop that goes on after a match and keeps the last one (not what the
\* code does)
TagStepAll(acc, tag, index) == TryTag(acc, tag, index)

\* "service_id = self.get_service_id_from_tag(tag); if service_id: return
\* service_id": once a tag has matched no further tag is looked up
TagStep(acc, tag, index) ==
    IF acc.service_id # 0 THEN acc ELSE TryTag(acc, tag, index)

\* the loop over the candidate tags; tried lists the tags resolved
RECURSIVE MatchFirstTag(_, _, _)
MatchFirstTag(tags, index, acc) ==
    IF tags = <<>> THEN acc
    ELSE MatchFirstTag(Tail(tags), index, TagStep(acc, Head(tags), index))

\* extract_service_from_time_entry, on a loaded index
extract_service_from_time_entry(time_entry, index) ==
    MatchFirstTag(CandidateTags(time_entry), index, NoService)

NoReport == [returned |-> FALSE, input |-> <<>>, service_id |-> 0,
             score |-> 0, match_type |-> "none"]

\* the loop of _extract_service_info: an exact match returns nothing and the
\* loop goes on; a fuzzy match with a score below 1.0 is returned
RECURSIVE ReportScan(_, _)
ReportScan(tags, index) ==
    IF tags = <<>> THEN NoReport
    ELSE LET tag == Head(tags)
             r == find_service_by_tag(tag, index)
             score == _calculate_service_match_score(tag, r.value)
         IN  IF ~r.found THEN ReportScan(Tail(tags), index)
             ELSE IF DictHas(index.by_name, Lower(tag))
             THEN ReportScan(Tail(tags), index)
             ELSE IF score < One
             THEN [returned |-> TRUE, input |-> tag,
                   service_id |-> Get(r.value, "id", 0), score |-> score,
                   match_type |-> "fuzzy"]
             ELSE ReportScan(Tail(tags), index)

\* _extract_service_info, on a loaded index
_extract_service_info(time_entry, index) ==
    ReportScan(CandidateTags(time_entry), index)

\* sample time entries: tag objects, a tag text, a list of tag texts
ExtractTags == {tTime, tDesign, tWeb, tDev, tWebDesignPad}
TagLists == SeqsUpTo(ExtractTags, MaxTags)
RECURSIVE Join(_, _)
Join(items, sep) ==
    IF items = <<>> THEN <<>>
    ELSE IF Len(items) = 1 THEN items[1]
    ELSE items[1] \o sep \o Join(Tail(items), sep)
ExtractEntries ==
    {[tags |-> PyDicts(labels)] : labels \in TagLists}
        \cup {[tag |-> PyStr(Join(labels, <<",", " ">>))] : labels \in TagLists}
        \cup {[service |-> PyStr(Join(labels, <<";">>))] : labels \in TagLists}
        \cup {[tags |-> PyList(labels)] : labels \in TagLists}

\* the indexes get_services can build, and the two functions tabulated over
\* the sample entries and these indexes
ServiceIndexes ==
    {ServicesAfterGet(NoIndex, catalogue, "ok") : catalogue \in ServiceCatalogues}
SelectionOf ==
    [time_entry \in ExtractEntries, index \in ServiceIndexes |->
        extract_service_from_time_entry(time_entry, index)]
ReportOf ==
    [time_entry \in ExtractEntries, index \in ServiceIndexes |->
        _extract_service_info(time_entry, index)]
CandidateTagsOf == [time_entry \in ExtractEntries |-> CandidateTags(time_entry)]

\* the record of a call of one of the two: the service chosen (value, tag),
\* the tags resolved (tried), the report entry
ExtractCall(op, time_entry, sel, report, raised) ==
    [op |-> op, arg |-> time_entry, found |-> sel.service_id # 0,
     value |-> [id |-> sel.service_id], branch |-> "none", raised |-> raised,
     scored |-> 0, best_score |-> 0, repeat |-> FALSE, tag |-> sel.tag,
     tried |-> sel.tried, report |-> report]

\* self.services after the call: fetched by the first find_service_by_tag
\* when the attribute is absent
ServicesAfterExtract(time_entry, old, catalogue, outcome) ==
    IF CandidateTagsOf[time_entry] = <<>> THEN old
    ELSE ServicesAfterFind(old, catalogue, outcome)

\* the call raises: a tag is looked up and there is no index
ExtractRaises(time_entry, index) ==
    CandidateTagsOf[time_entry] # <<>> /\ ~index.loaded

ExtractServiceFromTimeEntry ==
    \E time_entry \in ExtractEntries, outcome \in LazyOutcomes(services) :
        /\ services' = ServicesAfterExtract(time_entry, services, provServices, outcome)
        /\ ret' = IF ExtractRaises(time_entry, services')
                  THEN ExtractCall("extract_service_from_time_entry", time_entry,
                                   NoService, NoReport, TRUE)
                  ELSE IF ~services'.loaded
                  THEN ExtractCall("extract_service_from_time_entry", time_entry,
                                   NoService, NoReport, FALSE)
                  ELSE ExtractCall("extract_service_from_time_entry", time_entry,
                                   SelectionOf[time_entry, services'],
                                   NoReport, FALSE)
        /\ UNCHANGED <<provPages, provServices, clients, batchVars, dedupVars, source>>

ExtractServiceInfo ==
    \E time_entry \in ExtractEntries, outcome \in LazyOutcomes(services) :
        /\ services' = ServicesAfterExtract(time_entry, services, provServices, outcome)
        /\ ret' = IF ExtractRaises(time_entry, services')
                  THEN ExtractCall("_extract_service_info", time_entry,
                                   NoService, NoReport, TRUE)
                  ELSE IF ~services'.loaded
                  THEN ExtractCall("_extract_service_info", time_entry,
                                   NoService, NoReport, FALSE)
                  ELSE ExtractCall("_extract_service_info", time_entry, NoService,
                                   ReportOf[time_entry, services'], FALSE)
        /\ UNCHANGED <<provPages, provServices, clients, batchVars, dedupVars, source>>

InitExtract ==
    /\ provPages \in {<< <<>> >>}
    /\ IdleResolver
    /\ IdleBatch
    /\ IdleDedup

NextExtract ==
    \/ GetServices
    \/ ExtractServiceFromTimeEntry
    \/ ExtractServiceInfo

SpecExtract == InitExtract /\ [][NextExtract]_vars

\* the tag resolves to a service of the index, exactly or fuzzily
Resolves(tag, index) == find_service_by_tag(tag, index).found

\* the positions of the candidate tags that resolve
ResolvingTags(tags, index) == {i \in 1..Len(tags) : Resolves(tags[i], index)}
FirstResolving(tags, index) ==
    CHOOSE i \in ResolvingTags(tags, index) :
        \A j \in ResolvingTags(tags, index) : i <= j

SelectsFirstResolving(tags, index) ==
    IF ResolvingTags(tags, index) = {}
    THEN ~ret.found /\ ret.tried = tags
    ELSE /\ ret.found
         /\ ret.tag = tags[FirstResolving(tags, index)]
         /\ ret.value.id
                = find_service_by_tag(tags[FirstResolving(tags, index)], index).value.id
         /\ ret.tried = SubSeq(tags, 1, FirstResolving(tags, index))

C26_ReportAgreesWithSelection ==
    (ret.op = "_extract_service_info" /\ services.loaded /\ ret.report.returned) =>
        /\ ret.report.input = SelectionOf[ret.arg, services].tag
        /\ ret.report.service_id = SelectionOf[ret.arg, services].service_id

\* what the two do agree on: the tag reported is one that resolves, to the
\* service reported, and every tag before it that resolves is an exact match
\* or a fuzzy match the replica scores 1.0
C26_ReportedTagResolves ==
    (ret.op = "_extract_service_info" /\ services.loaded /\ ret.report.returned) =>
        /\ Resolves(ret.report.input, services)
        /\ ret.report.service_id
               = get_service_id_from_tag(ret.report.input, services)

\* the start timestamp of the record behind the i-th POST
StartOf(i) == fromisoformat(ReplaceZ(entries[posts[i].pos]["startdate"].s))

\* the minute of the day of a parsed timestamp, in UTC
UtcMinute(dt) ==
    Number(SubSeq(dt.clock, 1, 2)) * 60 + Number(SubSeq(dt.clock, 4, 5)) - dt.offset

\* the same instant in UTC with the trailing marker, for an instant that
\* falls on the same day in UTC
UtcStartedAt(dt) ==
    dt.date \o <<"T">> \o TwoDigits(UtcMinute(dt) \div 60) \o <<":">>
        \o TwoDigits(UtcMinute(dt) % 60) \o <<":">> \o SubSeq(dt.clock, 7, 8)
        \o <<".","0","0","0","Z">>

\* C22: the started_at of a submitted payload denotes the same instant as
\* the record's start timestamp, in UTC with a trailing Z: for an input with
\* a non-zero UTC offset the wall-clock time is shifted by the offset before
\* the Z is appended.
C22_StartedAtIsSameInstant ==
    \A i \in 1..Len(posts) :
        UtcMinute(StartOf(i)) \in 0..1439 =>
            posts[i].payload["started_at"] = UtcStartedAt(StartOf(i))

\* the part of C22 the code keeps: a start timestamp given in UTC (with Z
\* or +00:00) is written with its own wall-clock time
C22_UtcInputIsKept ==
    \A i \in 1..Len(posts) :
        StartOf(i).offset = 0 =>
            posts[i].payload["started_at"] = UtcStartedAt(StartOf(i))

\* C23: _calculate_fuzzy_match_score replicates partial_match_client: when
\* the scan returns customer c with best score s for a query, the replica's
\* score of the query and c equals min(1, s), so a "Fuzzy match" row of the
\* exported mapping shows the score that made the resolver accept the match,
\* which is never below the 0.4 threshold.
C23_ReplicaEqualsResolverScore ==
    /\ (/\ ret.op \in {"find_client_by_name", "partial_match_client"}
        /\ ret.branch = "fuzzy"
        /\ ~CalcClientRaises(ret.value)) =>
            CalcClientScoreOf[ret.arg, ret.value] = Min(One, ret.best_score)
    /\ (ret.op = "export_client_mappings" /\ ret.branch = "fuzzy") =>
            ret.best_score >= ClientThreshold


\* ---------------------------------------------------------------------
\* main.py, steps 5 to 7: the time entries read, the records built from them
\* and handed to create_time_entries_batch.

\* the file or the API can be read, or reading it raises
ReadOutcomes == {"ok", "raises"}

\* lines 60-92: load_time_entries_from_excel(file_path), or get_time_entries
\* and format_entries; main returns when the call raises
LoadTimeEntries ==
    /\ pc = "load"
    /\ \E read \in ReadOutcomes :
        IF read = "ok" /\ LoadedOf(source).ok
        THEN /\ source' = [source EXCEPT !.time_entries = LoadedOf(source).entries]
             /\ pc' = "process"
        ELSE /\ pc' = "done"
             /\ UNCHANGED source
    /\ UNCHANGED <<resolverVars, dedupVars, entries, pos, result, successful,
                   failed, stats, posts, calls, fetched, identity_id,
                   batchRaised>>

\* lines 94-112: freshbooks_entries, one record for each time entry
ProcessEntries ==
    /\ pc = "process"
    /\ \E now \in [1..Len(source.time_entries) -> Nows] :
        entries' = [i \in 1..Len(source.time_entries) |->
                        MainEntry(source.time_entries[i], now[i])]
    /\ pc' = "loop"
    /\ UNCHANGED <<resolverVars, dedupVars, source, pos, result, successful,
                   failed, stats, posts, calls, fetched, identity_id,
                   batchRaised>>

InitMain ==
    /\ provPages \in BatchProviderPages
    /\ IdleResolver
    /\ IdleDedup
    /\ source \in MainSources
    /\ entries = <<>>
    /\ pc = "fetch"
    /\ pos = 1
    /\ result = NoResult
    /\ successful = <<>>
    /\ failed = <<>>
    /\ stats = NoStats
    /\ posts = <<>>
    /\ calls = <<>>
    /\ fetched = "none"
    /\ identity_id = NoIdentity
    /\ batchRaised = FALSE

NextMain ==
    \/ MainGetClients
    \/ LoadTimeEntries
    \/ ProcessEntries
    \/ CreateTimeEntry
    \/ RecordOutcome
    \/ ReturnBatch

SpecMain == InitMain /\ [][NextMain]_vars

\* the seconds between the two timestamps of the i-th entry the API gave
RawSeconds(i) ==
    DurationSeconds(ParseStamp(Get(source.rows[i]["duration"], "startedAt", PyNone)),
                    ParseStamp(Get(source.rows[i]["duration"], "stoppedAt", PyNone)))

\* the rounded duration of the i-th formatted entry, in hundredths of an hour
Rounded(i) == source.time_entries[i]["duration_hours"].v

\* the smallest multiple of half an hour that is not below a number of
\* seconds, in hundredths of an hour
HalfHoursUp(seconds) == 50 * ((seconds + 1799) \div 1800)

\* the entries of the API have been formatted
Formatted == source.kind = "api" /\ source.time_entries # <<>>

\* C24: the rounding of a Timeular entry's duration rounds up: for every
\* duration d >= 0 the rounded value r is not below d, r is 0.25 hours when
\* d is under 0.25 hours, and otherwise r is the smallest multiple of half an
\* hour that is not below d.
C24_RoundsUpToHalfHour ==
    Formatted =>
        \A i \in 1..Len(source.time_entries) :
            RawSeconds(i) >= 0 =>
                /\ Rounded(i) * 36 >= RawSeconds(i)
                /\ RawSeconds(i) < 900 => Rounded(i) = 25
                /\ RawSeconds(i) >= 900 => Rounded(i) = HalfHoursUp(RawSeconds(i))

\* what holds instead: under 15 minutes gives 0.25 hours, under 30 minutes
\* gives 0.5 hours, and from there the value is the multiple of half an hour
\* nearest to d, at most a quarter of an hour away from it on either side
C24_RoundsToNearestHalfHour ==
    Formatted =>
        \A i \in 1..Len(source.time_entries) :
            RawSeconds(i) >= 0 =>
                /\ RawSeconds(i) < 900 => Rounded(i) = 25
                /\ (RawSeconds(i) >= 900 /\ RawSeconds(i) < 1800) => Rounded(i) = 50
                /\ RawSeconds(i) >= 1800 =>
                    /\ Rounded(i) % 50 = 0
                    /\ Rounded(i) * 36 - RawSeconds(i) <= 900
                    /\ RawSeconds(i) - Rounded(i) * 36 <= 900


\* the row of the file behind the k-th POST, and the record main built from it
RowOf(k) == source.rows[posts[k].pos]
BuiltFrom(k) == entries[posts[k].pos]

\* C29: for every time entry load_time_entries_from_excel returns, what main
\* submits carries the row's values: the duration in seconds is the file's
\* Duration, the start time is the file's StartDate, the customer query is
\* the file's Activity and the billable flag is the file's Billable value.
C29_SubmittedCarriesFileValues ==
    source.kind = "file" =>
        \A k \in 1..Len(posts) :
            /\ posts[k].payload.duration = RowOf(k)["Duration"].v \div 100
            /\ posts[k].payload.started_at
                   = strftime(fromisoformat(ReplaceZ(RowOf(k)["StartDate"].s)))
            /\ ClientNameTab[BuiltFrom(k)] = RowOf(k)["Activity"].s
            /\ posts[k].payload.billable = ParseBillable(RowOf(k)["Billable"])

\* what holds instead: main reads keys the loader does not write, so every
\* record from a file is submitted with a duration of 0 seconds, the time of
\* the run as its start, no customer and billable set; the note and the
\* folder are the row's
C29_FileValuesAreDropped ==
    source.kind = "file" =>
        \A k \in 1..Len(posts) :
            /\ posts[k].payload.duration = 0
            /\ \E now \in Nows : posts[k].payload.started_at = strftime(now)
            /\ ClientNameTab[BuiltFrom(k)] = <<>>
            /\ "client_id" \notin DOMAIN posts[k].payload
            /\ posts[k].payload.billable
            /\ posts[k].payload.note = CellOrEmpty(RowOf(k)["Note"]).s
            /\ posts[k].payload.project_id = Str(RowOf(k)["FolderId"])


\* what find_client_by_name gave the k-th call of create_time_entry
ResolvedFor(k) == find_client_by_name(ClientNameTab[EntryOf(k)], calls[k].index)

\* the k-th call reached the customer lookup and the lookup returned
LookedUp(k) ==
    /\ TransformOf[EntryOf(k)].ok
    /\ ClientNameTab[EntryOf(k)] # <<>>
    /\ ~ResolvedFor(k).raised

\* the record of the k-th call was submitted without a client_id
PostedWithoutClient(k) ==
    \E i \in 1..Len(posts) :
        /\ posts[i].pos = calls[k].pos
        /\ "client_id" \notin DOMAIN posts[i].payload

\* C30: a customer query that resolves to no customer is not an error: the
\* record is still built and submitted, without a client_id unless the record
\* gives one itself; when the query resolves, the client_id submitted is the
\* id of the record the resolver returned.
C30_MissIsNotAnError ==
    \A k \in 1..Len(calls) :
        LookedUp(k) =>
            /\ \E i \in 1..Len(posts) : posts[i].pos = calls[k].pos
            /\ (~HasExplicitId(EntryOf(k)) /\ ~ResolvedFor(k).found) =>
                    PostedWithoutClient(k)
            /\ (~HasExplicitId(EntryOf(k)) /\ ResolvedFor(k).found) =>
                    Posted(k, "client_id", Str(ResolvedFor(k).value.id))

\* a query that resolves to nothing, submitted without a client_id
C30_Witness ==
    \E k \in 1..Len(calls) :
        /\ LookedUp(k)
        /\ ~ResolvedFor(k).found
        /\ ~HasExplicitId(EntryOf(k))
        /\ PostedWithoutClient(k)
        /\ \E j \in 1..Len(posts) : posts[j].answer = "created"


\* ---------------------------------------------------------------------
\* process_timeular_data, the upload path (authentication.py 452-512).

\* the most rows of an uploaded table
MaxUpload == 3

\* FreshbooksClient.__init__(self, api_token, business_id): the arguments a
\* construction has to give, and the ones line 475 gives
InitArity == 2
UploadArity == 1

\* FreshbooksClient(...) raises TypeError unless it is given InitArity arguments
Constructs(nargs) == nargs = InitArity

\* line 477: the column names in lower case
LowerColumn ==
    [TimeEntryID |-> "timeentryid", StartDate |-> "startdate",
     Duration |-> "duration", Billable |-> "billable",
     ActivityID |-> "activityid", Activity |-> "activity",
     FolderId |-> "folderid", Folder |-> "folder", service |-> "service",
     Note |-> "note"]

\* lines 485-494: the row as a dictionary; a missing cell is None
RowDict(row) ==
    [col \in {LowerColumn[c] : c \in DOMAIN row} |->
        row[CHOOSE c \in DOMAIN row : LowerColumn[c] = col]]

\* what create_time_entry returns for a row: the provider's answer, or None
UploadResults == {"created", "none"}

NoUpload ==
    [raised |-> FALSE, stage |-> "loop", attempted |-> 0, successful_entries |-> 0,
     failed_entries |-> <<>>, fuzzy_matches |-> <<>>]

\* lines 497-506, one row: the counters, and 'fuzzy_matches' in result, which
\* raises TypeError when result is None
UploadStep(acc, row, created) ==
    IF acc.raised THEN acc
    ELSE IF created = "created"
    THEN [acc EXCEPT !.attempted = @ + 1, !.successful_entries = @ + 1]
    ELSE [acc EXCEPT !.attempted = @ + 1, !.raised = TRUE,
                     !.failed_entries =
                         Append(@, [time_entry |-> RowDict(row),
                                    error |-> "Failed to create time entry"])]

\* lines 483-506: the loop over the rows
RECURSIVE UploadLoop(_, _, _)
UploadLoop(rows, results, acc) ==
    IF rows = <<>> THEN acc
    ELSE UploadLoop(Tail(rows), Tail(results),
                    UploadStep(acc, Head(rows), Head(results)))

\* lines 463-512.  me is what the users/me request does; an exception
\* anywhere is logged and raised again.
process_timeular_data(rows, me, results) ==
    IF me = "raises" THEN [NoUpload EXCEPT !.raised = TRUE, !.stage = "users/me"]
    ELSE IF ~Constructs(UploadArity)
    THEN [NoUpload EXCEPT !.raised = TRUE, !.stage = "FreshbooksClient"]
    ELSE UploadLoop(rows, results, NoUpload)

UploadCall(rows, r) ==
    [op |-> "process_timeular_data", arg |-> rows, found |-> FALSE,
     value |-> NoRecord, branch |-> "none", raised |-> r.raised, scored |-> 0,
     best_score |-> 0, repeat |-> FALSE, stage |-> r.stage,
     attempted |-> r.attempted, successful_entries |-> r.successful_entries,
     failed_entries |-> r.failed_entries, fuzzy_matches |-> r.fuzzy_matches]

ProcessTimeularData ==
    /\ source.kind = "upload"
    /\ ret.op = "none"
    /\ \E me \in {"ok", "raises"},
          results \in [1..Len(source.rows) -> UploadResults] :
        ret' = UploadCall(source.rows,
                          process_timeular_data(source.rows, me, results))
    /\ UNCHANGED <<provPages, provServices, clients, services, batchVars,
                   dedupVars, source>>

\* the tables that can be uploaded
UploadSources ==
    {[kind |-> "upload", rows |-> rows, time_entries |-> <<>>] :
        rows \in SeqsUpTo(RowPool, MaxUpload)}

InitUpload ==
    /\ provPages \in {<< <<>> >>}
    /\ provServices \in ServiceCatalogues
    /\ clients = NoIndex
    /\ services = NoIndex
    /\ ret = NoCall
    /\ source \in UploadSources
    /\ entries = <<>>
    /\ pc = "done"
    /\ pos = 1
    /\ result = NoResult
    /\ successful = <<>>
    /\ failed = <<>>
    /\ stats = NoStats
    /\ posts = <<>>
    /\ calls = <<>>
    /\ fetched = "none"
    /\ identity_id = NoIdentity
    /\ batchRaised = FALSE
    /\ IdleDedup

SpecUpload == InitUpload /\ [][ProcessTimeularData]_vars

\* process_timeular_data has been called
Uploaded == ret.op = "process_timeular_data"

\* C25: process_timeular_data handles a failure of one row locally: for a
\* table of n rows it does not raise and returns (s, failed, fuzzy) with
\* s + len(failed) = n, every row after a failing one attempted.
C25_RowFailureStaysLocal ==
    Uploaded =>
        /\ ~ret.raised
        /\ ret.attempted = Len(ret.arg)
        /\ ret.successful_entries + Len(ret.failed_entries) = Len(ret.arg)

\* what holds instead: every call raises before the first row is attempted,
\* from the users/me request or from the construction of the client
C25_UploadRaisesBeforeTheRows ==
    Uploaded =>
        /\ ret.raised
        /\ ret.stage \in {"users/me", "FreshbooksClient"}
        /\ ret.attempted = 0

\* and with a client that could be constructed, the loop would raise at the
\* first row create_time_entry returns None for: no row after it is attempted
C25_LoopStopsAtFirstFailure ==
    \A src \in UploadSources :
        \A results \in [1..Len(src.rows) -> UploadResults] :
            (\E i \in 1..Len(src.rows) : results[i] = "none") =>
                /\ UploadLoop(src.rows, results, NoUpload).raised
                /\ UploadLoop(src.rows, results, NoUpload).attempted
                       = CHOOSE i \in 1..Len(src.rows) :
                            results[i] = "none"
                            /\ \A j \in 1..(i - 1) : results[j] = "created"


\* get_clients has returned
GotClients == ret.op = "get_clients"

\* a request of the call failed: a non-200 status, an unexpected shape
\* ("error") or an exception
RequestFailed == GotClients /\ ret.fault.page \in 1..Len(provPages)

\* C27: get_clients never returns an incomplete index as a success: when a
\* page request fails the call returns None or raises and installs no index
\* built from the pages fetched so far, and an index it returns holds the
\* clients of every page the provider reports.
C27_NoPartialIndex ==
    GotClients =>
        /\ RequestFailed => ret.raised
        /\ ~ret.raised => clients.all = Flatten(provPages)

\* what holds instead: only an exception makes the call return None; after
\* a non-200 status or an unexpected shape the call installs and returns the
\* index of the pages before the failed one
C27_ErrorInstallsPagesSoFar ==
    GotClients =>
        /\ ret.raised <=> (RequestFailed /\ ret.fault.kind = "exception")
        /\ ~ret.raised =>
            /\ clients.loaded
            /\ clients.all
                 = Flatten(SubSeq(provPages, 1,
                                  IF RequestFailed THEN ret.fault.page - 1
                                  ELSE Len(provPages)))

\* the page numbers 1..n in order
UpTo(n) == [i \in 1..n |-> i]

\* C28: the pagination loop of get_clients terminates: with a provider that
\* holds N >= 1 pages and echoes the page asked for, it requests the pages
\* 1, 2, ..., N in increasing order, each once, and stops; a request that
\* fails ends the loop after that request.
C28_PagesRequestedOnceInOrder ==
    GotClients =>
        /\ ret.loop.ended
        /\ ret.loop.requested
             = UpTo(IF RequestFailed THEN ret.fault.page ELSE Len(provPages))

\* a provider with two pages answered both requests
C28_Witness ==
    /\ GotClients
    /\ Len(provPages) = 2
    /\ ~RequestFailed
    /\ ret.loop.requested = <<1, 2>>
    /\ Len(clients.all) = 2

====
